---- MODULE Spec2Model ----
(***************************************************************************)
(* KCS report metrics (src/src/transform/metrics.py) as operators over     *)
(* tables, and the calls made on them as actions.                          *)
(*                                                                         *)
(* A string is a sequence of characters (one-character strings); the en    *)
(* dash of the source's literals is the character EnDash.  A missing value *)
(* (None/NaN) is Null, a missing timestamp is NaT.  A DataFrame is a       *)
(* function from index labels to rows, a Series a function from index      *)
(* labels to values, so that pandas' alignment on labels can be modelled.  *)
(* An optional number (float | None) is a set with at most one element;    *)
(* ratios are kept in thousandths, which is what round(x, 3) leaves.       *)
(***************************************************************************)
EXTENDS Integers, Sequences, FiniteSets, TLC

VARIABLES cases, articles, call, ret, snowflake, output_file

vars == <<cases, articles, call, ret, snowflake, output_file>>

\* ------------------------------------------------------------------ values

EnDash == "EN DASH"

Null == <<"NaN">>

None == {}

Some(x) == {x}

Whitespace == {" ", "\t", "\n"}

LowerLetters == <<"a","b","c","d","e","f","g","h","i","j","k","l","m","n","o","p","q","r","s","t","u","v","w","x","y","z">>

UpperLetters == <<"A","B","C","D","E","F","G","H","I","J","K","L","M","N","O","P","Q","R","S","T","U","V","W","X","Y","Z">>

ToUpperMap == [c \in {LowerLetters[k] : k \in DOMAIN LowerLetters} |-> UpperLetters[CHOOSE k \in DOMAIN LowerLetters : LowerLetters[k] = c]]

ToLowerMap == [c \in {UpperLetters[k] : k \in DOMAIN UpperLetters} |-> LowerLetters[CHOOSE k \in DOMAIN UpperLetters : UpperLetters[k] = c]]

\* ------------------------------------------------- pandas string accessors

\* Series.str.strip(): leading and trailing whitespace removed, NaN kept.
RECURSIVE LStrip(_)
LStrip(s) == IF s # <<>> /\ Head(s) \in Whitespace THEN LStrip(Tail(s)) ELSE s

RECURSIVE RStrip(_)
RStrip(s) == IF s # <<>> /\ s[Len(s)] \in Whitespace THEN RStrip(SubSeq(s, 1, Len(s) - 1)) ELSE s

StrStrip(s) == IF s = Null THEN Null ELSE RStrip(LStrip(s))

\* Series.str.upper()
StrUpper(s) == IF s = Null THEN Null ELSE [k \in DOMAIN s |-> IF s[k] \in DOMAIN ToUpperMap THEN ToUpperMap[s[k]] ELSE s[k]]

\* Series.str.casefold(), which on these characters is lower-casing
StrCasefold(s) == IF s = Null THEN Null ELSE [k \in DOMAIN s |-> IF s[k] \in DOMAIN ToLowerMap THEN ToLowerMap[s[k]] ELSE s[k]]

\* re.search of a literal, IGNORECASE
HasSubstringNoCase(s, pat) == \E k \in 1..(Len(s) - Len(pat) + 1) : StrCasefold(SubSeq(s, k, k + Len(pat) - 1)) = StrCasefold(pat)

\* Series.str.contains(r"a|b|c", case=False, na=False)
StrContains(s, alternatives) == s # Null /\ \E pat \in alternatives : HasSubstringNoCase(s, pat)

\* Series.isin(values): a missing value is in no list of strings
IsIn(x, values) == x # Null /\ x \in values

\* elementwise == and != : NaN equals nothing, not even NaN
PdEq(a, b) == a # Null /\ b # Null /\ a = b

PdNe(a, b) == ~PdEq(a, b)

NotNa(x) == x # Null

\* the region trimmed only
NormRegion_StripOnly(s) == StrStrip(s)

\* df["region"].str.strip().str.upper()
NormRegion(s) == StrUpper(StrStrip(s))

\* ----------------------------------------------------------- pandas frames

Column(df, f) == [i \in DOMAIN df |-> df[i][f]]

\* a & b on boolean Series: aligned on the union of the labels, a label
\* missing on either side gives NaN, which the logical operation fills
\* with False.
MaskAnd(a, b) == [i \in (DOMAIN a) \cup (DOMAIN b) |-> i \in DOMAIN a /\ i \in DOMAIN b /\ a[i] /\ b[i]]

MaskNot(a) == [i \in DOMAIN a |-> ~a[i]]

\* mask.sum()
MaskSum(mask) == Cardinality({i \in DOMAIN mask : mask[i]})

\* df[mask]: the key is reindexed to the frame's labels (every label of the
\* frame is a label of the key in every use made of it here).
Filter(df, mask) == [i \in {j \in DOMAIN df : mask[j]} |-> df[i]]

\* round(num / denom, 3) in thousandths.  Python rounds to the nearest
\* thousandth; an exact tie (only possible when 16 divides denom) goes to
\* the even neighbour.
Round3(num, denom) ==
    LET n == 1000 * num
        q == n \div denom
        r == n % denom
    IN  IF 2 * r > denom THEN q + 1
        ELSE IF 2 * r < denom THEN q
        ELSE IF q % 2 = 0 THEN q ELSE q + 1

\* ------------------------------------------------------------ timestamps

\* A timestamp: calendar date and time of day (t = 0 is midnight).
Ts(y, m, d, t) == [y |-> y, m |-> m, d |-> d, t |-> t]

NaT == Ts(0, 0, 0, 0)

IsLeap(y) == (y % 4 = 0 /\ y % 100 # 0) \/ y % 400 = 0

DaysInMonth(y, m) ==
    IF m = 2 THEN (IF IsLeap(y) THEN 29 ELSE 28)
    ELSE IF m \in {4, 6, 9, 11} THEN 30 ELSE 31

\* a <= b and a >= b on timestamps; a comparison with NaT is False
TsLe(a, b) ==
    /\ a # NaT
    /\ b # NaT
    /\ \/ a.y < b.y
       \/ a.y = b.y /\ a.m < b.m
       \/ a.y = b.y /\ a.m = b.m /\ a.d < b.d
       \/ a.y = b.y /\ a.m = b.m /\ a.d = b.d /\ a.t <= b.t

TsGe(a, b) == TsLe(b, a)

\* ts - pd.Timedelta(days=1)
MinusOneDay(ts) ==
    IF ts.d > 1 THEN [ts EXCEPT !.d = ts.d - 1]
    ELSE IF ts.m > 1 THEN [ts EXCEPT !.m = ts.m - 1, !.d = DaysInMonth(ts.y, ts.m - 1)]
    ELSE [ts EXCEPT !.y = ts.y - 1, !.m = 12, !.d = 31]

\* Timestamp.date(): the time of day dropped
DateOf(ts) == IF ts = NaT THEN NaT ELSE [ts EXCEPT !.t = 0]

\* .dt.to_period("M"), as the period's ordinal (months counted from year 0)
ToPeriodM(ts) == ts.y * 12 + (ts.m - 1)

\* str(period): "YYYY-MM", kept as the pair <<year, month>>
PeriodStr(ordinal) == <<ordinal \div 12, (ordinal % 12) + 1>>

\* ------------------------------------------------------------ metrics.py

CLOSE_REASONS == { <<"S", "o", "l", "v", "e", "d", " ", "b", "y", " ", "e", "x", "i", "s", "t", "i", "n", "g", " ", "a", "r", "t", "i", "c", "l", "e">>, <<"S", "o", "l", "v", "e", "d", " ", "b", "y", " ", "e", "x", "i", "s", "t", "i", "n", "g", " ", "d", "o", "c">>, <<"A", "r", "t", "i", "c", "l", "e", " ", "U", "p", "d", "a", "t", "e", "d">>, <<"A", "r", "t", "i", "c", "l", "e", " ", "F", "l", "a", "g", "g", "e", "d">>, <<"A", "r", "t", "i", "c", "l", "e", " ", "C", "r", "e", "a", "t", "e", "d">> }

ClosedPurged == <<"C", "l", "o", "s", "e", "d", " ", EnDash, " ", "P", "u", "r", "g", "e", "d">>

External == <<"E", "x", "t", "e", "r", "n", "a", "l">>

ALL == <<"A", "L", "L">>

ValidOwnerRoles == { <<"S", "u", "p", "p", "o", "r", "t">>, <<"I", "d", "a", "p", "t", "i", "v", "e">>, <<"E", "P", "M">> }

\* ADMIN alone
AdminInternal_AdminOnly == { <<"A", "D", "M", "I", "N">> }

AdminInternal == { <<"A", "D", "M", "I", "N">>, <<"I", "N", "T", "E", "R", "N", "A", "L">> }

\* the denominator taken over all rows
CrrNotnaMask_AllRows(df) == [i \in DOMAIN df |-> TRUE]

\* close_reason_ratio: notna_mask
CrrNotnaMask(df) == [i \in DOMAIN df |-> NotNa(df[i].close_reason)]

\* the valid mask without the status clause
CrrValidMask_NoStatusClause(df) ==
    LET m1 == CrrNotnaMask(df)
        m2 == [i \in DOMAIN df |-> IsIn(StrStrip(df[i].close_reason), CLOSE_REASONS)]
        m4 == [i \in DOMAIN df |-> StrContains(df[i].owner_role, ValidOwnerRoles)]
        m5 == [i \in DOMAIN df |-> PdEq(StrStrip(df[i].case_record_type), External)]
        m6 == MaskNot([i \in DOMAIN df |-> IsIn(NormRegion(df[i].region), AdminInternal)])
    IN  MaskAnd(MaskAnd(MaskAnd(MaskAnd(m1, m2), m4), m5), m6)

\* close_reason_ratio: valid_mask
CrrValidMask(df) ==
    LET m1 == CrrNotnaMask(df)
        m2 == [i \in DOMAIN df |-> IsIn(StrStrip(df[i].close_reason), CLOSE_REASONS)]
        m3 == [i \in DOMAIN df |-> PdNe(StrStrip(df[i].status), ClosedPurged)]
        m4 == [i \in DOMAIN df |-> StrContains(df[i].owner_role, ValidOwnerRoles)]
        m5 == [i \in DOMAIN df |-> PdEq(StrStrip(df[i].case_record_type), External)]
        m6 == MaskNot([i \in DOMAIN df |-> IsIn(NormRegion(df[i].region), AdminInternal)])
    IN  MaskAnd(MaskAnd(MaskAnd(MaskAnd(MaskAnd(m1, m2), m3), m4), m5), m6)

\* an empty denominator reported as a ratio of 0
Ratio_ZeroWhenEmpty(num_mask, denom_mask) ==
    LET num == MaskSum(num_mask)
        denom == MaskSum(denom_mask)
    IN  IF denom # 0 THEN Some(Round3(num, denom)) ELSE Some(0)

\* close_reason_ratio._ratio
Ratio(num_mask, denom_mask) ==
    LET num == MaskSum(num_mask)
        denom == MaskSum(denom_mask)
    IN  IF denom # 0 THEN Some(Round3(num, denom)) ELSE None

\* Series.unique() of the normalized regions (NaN included, once)
UniqueRegions(df) == {NormRegion(df[i].region) : i \in DOMAIN df}

RegMask(df, reg) == [i \in DOMAIN df |-> PdEq(NormRegion(df[i].region), reg)]

close_reason_ratio(df, region) ==
    LET notna_mask == CrrNotnaMask(df)
        valid_mask == CrrValidMask(df)
    IN  IF region = Null
            THEN Ratio(valid_mask, notna_mask)
        ELSE IF StrUpper(region) = ALL
            THEN [reg \in UniqueRegions(df) |->
                     Ratio(MaskAnd(valid_mask, RegMask(df, reg)), MaskAnd(notna_mask, RegMask(df, reg)))]
        ELSE Ratio(MaskAnd(valid_mask, RegMask(df, StrUpper(region))),
                   MaskAnd(notna_mask, RegMask(df, StrUpper(region))))

\* the valid mask with the region clause of close_reason_ratio added
GvcValidMask_WithRegionClause(df_cases, df) ==
    LET m1 == [i \in DOMAIN df |-> NotNa(df[i].close_reason)]
        m2 == [i \in DOMAIN df_cases |-> IsIn(StrStrip(df_cases[i].close_reason), CLOSE_REASONS)]
        m3 == [i \in DOMAIN df |-> PdNe(StrStrip(df[i].status), ClosedPurged)]
        m4 == [i \in DOMAIN df |-> StrContains(df[i].owner_role, ValidOwnerRoles)]
        m5 == [i \in DOMAIN df |-> PdEq(StrStrip(df[i].case_record_type), External)]
        m6 == MaskNot([i \in DOMAIN df |-> IsIn(NormRegion(df[i].region), AdminInternal)])
    IN  MaskAnd(MaskAnd(MaskAnd(MaskAnd(MaskAnd(m1, m2), m3), m4), m5), m6)

\* get_valid_cases_and_ratio: valid_mask.  The close_reason membership mask
\* is taken from df_cases, the other masks from df (the region's rows when
\* a region is given), and & aligns them on their labels.
GvcValidMask(df_cases, df) ==
    LET m1 == [i \in DOMAIN df |-> NotNa(df[i].close_reason)]
        m2 == [i \in DOMAIN df_cases |-> IsIn(StrStrip(df_cases[i].close_reason), CLOSE_REASONS)]
        m3 == [i \in DOMAIN df |-> PdNe(StrStrip(df[i].status), ClosedPurged)]
        m4 == [i \in DOMAIN df |-> StrContains(df[i].owner_role, ValidOwnerRoles)]
        m5 == [i \in DOMAIN df |-> PdEq(StrStrip(df[i].case_record_type), External)]
    IN  MaskAnd(MaskAnd(MaskAnd(MaskAnd(m1, m2), m3), m4), m5)

get_valid_cases_and_ratio(df_cases, region) ==
    LET df == IF region # Null /\ StrUpper(region) # ALL
                THEN Filter(df_cases, RegMask(df_cases, StrUpper(region)))
                ELSE df_cases
        notna_mask == [i \in DOMAIN df |-> NotNa(df[i].close_reason)]
        valid_mask == GvcValidMask(df_cases, df)
        num == MaskSum(valid_mask)
        denom == MaskSum(notna_mask)
    IN  [valid_cases_df |-> Filter(df, valid_mask),
         ratio |-> IF denom # 0 THEN Some(Round3(num, denom)) ELSE None]

\* Series.unique() of a column given as a sequence: first occurrences, in
\* order; all NaN count as one value.
RECURSIVE UniqueOrdered(_)
UniqueOrdered(s) ==
    IF s = <<>> THEN <<>>
    ELSE LET front == UniqueOrdered(SubSeq(s, 1, Len(s) - 1))
             last == s[Len(s)]
         IN  IF \E k \in DOMAIN front : front[k] = last THEN front ELSE Append(front, last)

\* the exclusion set written as the docstring spells it
ExcludeRegions_AsDocstring == { <<"N", "o", "n", "e">>, Null, <<"A", "D", "M", "I", "N", " ", "L", "A", "N", "D", " ", "(", "T", "E", "S", "T", ")">> }

ExcludeRegions == { <<"N", "O", "N", "E">>, Null, <<"A", "D", "M", "I", "N", " ", "L", "A", "N", "D", " ", "(", "T", "E", "S", "T", ")">> }

\* records.append(...) for one region of get_all_regions_valid_cases_and_ratios
RegionRecord(df_cases, region) ==
    LET r == get_valid_cases_and_ratio(df_cases, region)
    IN  [region |-> region,
         valid_cases_count |-> Cardinality(DOMAIN r.valid_cases_df),
         close_reason_ratio |-> r.ratio]

RECURSIVE RegionRecords(_, _)
RegionRecords(df_cases, regions) ==
    IF regions = <<>> THEN <<>>
    ELSE LET region == Head(regions)
             rest == RegionRecords(df_cases, Tail(regions))
         IN  IF region = Null \/ region \in ExcludeRegions
                THEN rest
                ELSE <<RegionRecord(df_cases, region)>> \o rest

get_all_regions_valid_cases_and_ratios(df_cases) ==
    RegionRecords(df_cases, UniqueOrdered([i \in 1..Len(df_cases) |-> NormRegion(df_cases[i].region)]))

\* close_reason_ratio_last_n_months_by_region; today is pd.Timestamp.today().
\* groupby drops the rows whose key is missing.
\* Series.sort_index(): the index labels in ascending order
RECURSIVE SortIndex(_)
SortIndex(keys) ==
    IF keys = {} THEN <<>>
    ELSE LET k == CHOOSE x \in keys : \A y \in keys : x <= y
         IN  <<k>> \o SortIndex(keys \ {k})

\* close_reason_ratio_last_n_months; today is pd.Timestamp.today().  The
\* result is the Series in index order, one [month, ratio] entry per month
\* that has a case; groupby.apply gives an empty frame when every month's
\* ratio is None, and a missing value (None here) for a month whose ratio
\* is None next to months that have one.
close_reason_ratio_last_n_months(df_cases, n, today) ==
    LET current_month == ToPeriodM(today)
        start_month == current_month - (n - 1)
        df_filtered == Filter(df_cases, [i \in DOMAIN df_cases |->
                           df_cases[i].created_date # NaT /\ ToPeriodM(df_cases[i].created_date) >= start_month])
        months == {ToPeriodM(df_filtered[i].created_date) : i \in DOMAIN df_filtered}
        Group(month) == Filter(df_filtered, [i \in DOMAIN df_filtered |-> ToPeriodM(df_filtered[i].created_date) = month])
        ratios == [month \in months |-> close_reason_ratio(Group(month), Null)]
        index == SortIndex(months)
    IN  IF \A month \in months : ratios[month] = None THEN <<>>
        ELSE [k \in DOMAIN index |-> [month |-> index[k], ratio |-> ratios[index[k]]]]

close_reason_ratio_last_n_months_by_region(df_cases, n, today) ==
    LET current_month == ToPeriodM(today)
        start_month == current_month - (n - 1)
        df_filtered == Filter(df_cases, [i \in DOMAIN df_cases |->
                           df_cases[i].created_date # NaT /\ ToPeriodM(df_cases[i].created_date) >= start_month])
        KeyOf(i) == <<ToPeriodM(df_filtered[i].created_date), NormRegion(df_filtered[i].region)>>
        keys == {KeyOf(i) : i \in {j \in DOMAIN df_filtered : df_filtered[j].region # Null}}
        Group(key) == Filter(df_filtered, [i \in DOMAIN df_filtered |-> df_filtered[i].region # Null /\ KeyOf(i) = key])
    IN  {[month |-> PeriodStr(key[1]), region |-> key[2], ratio |-> close_reason_ratio(Group(key), Null)] : key \in keys}

WeekExcludeRegionsUpper == { StrUpper(<<"A", "D", "M", "I", "N", " ", "L", "A", "N", "D", " ", "(", "T", "E", "S", "T", ")">>), StrUpper(<<>>) }

\* one queue role left out
ExcludeRoles_WithoutSalesOps == { <<"Q", "u", "e", "u", "e", " ", EnDash, " ", "S", "u", "p", "p", "o", "r", "t", " ", "M", "a", "i", "l", "b", "o", "x">>, <<"U", "s", "e", "r", "s", " ", "A", "c", "c", "e", "s", "s">>, <<"Q", "u", "e", "u", "e", " ", EnDash, " ", "R", "e", "n", "e", "w", "a", "l", " ", "O", "p", "s">> }

ExcludeRoles == { <<"Q", "u", "e", "u", "e", " ", EnDash, " ", "S", "u", "p", "p", "o", "r", "t", " ", "M", "a", "i", "l", "b", "o", "x">>, <<"Q", "u", "e", "u", "e", " ", EnDash, " ", "S", "a", "l", "e", "s", " ", "O", "p", "s">>, <<"U", "s", "e", "r", "s", " ", "A", "c", "c", "e", "s", "s">>, <<"Q", "u", "e", "u", "e", " ", EnDash, " ", "R", "e", "n", "e", "w", "a", "l", " ", "O", "p", "s">> }

License == <<"L", "i", "c", "e", "n", "s", "e">>

\* the bucket boundaries taken exclusive
get_month_week_start_Exclusive(dt) ==
    IF dt = NaT THEN NaT
    ELSE IF dt.d < 7 THEN [dt EXCEPT !.d = 1, !.t = 0]
    ELSE IF dt.d < 14 THEN [dt EXCEPT !.d = 8, !.t = 0]
    ELSE IF dt.d < 21 THEN [dt EXCEPT !.d = 15, !.t = 0]
    ELSE [dt EXCEPT !.d = 22, !.t = 0]

\* open_cases_week_over_week_by_region.get_month_week_start
get_month_week_start(dt) ==
    IF dt = NaT THEN NaT
    ELSE IF dt.d <= 7 THEN [dt EXCEPT !.d = 1, !.t = 0]
    ELSE IF dt.d <= 14 THEN [dt EXCEPT !.d = 8, !.t = 0]
    ELSE IF dt.d <= 21 THEN [dt EXCEPT !.d = 15, !.t = 0]
    ELSE [dt EXCEPT !.d = 22, !.t = 0]

\* the rows left by the filters of open_cases_week_over_week_by_region
OpenCasesRows(df_cases, end_date) ==
    LET df1 == Filter(df_cases, [i \in DOMAIN df_cases |->
                   /\ ~IsIn(NormRegion(df_cases[i].region), WeekExcludeRegionsUpper)
                   /\ NotNa(df_cases[i].region)
                   /\ ~IsIn(df_cases[i].owner_role, ExcludeRoles)
                   /\ PdNe(df_cases[i].case_record_type, License)])
    IN  IF end_date # NaT
            THEN Filter(df1, [i \in DOMAIN df1 |-> TsLe(df1[i].closed_date, end_date)])
            ELSE df1

\* open_cases_week_over_week_by_region; end_date = NaT stands for None.
open_cases_week_over_week_by_region(df_cases, end_date) ==
    LET df == OpenCasesRows(df_cases, end_date)
        week_start == [i \in DOMAIN df |-> DateOf(get_month_week_start(df[i].closed_date))]
        KeyOf(i) == <<week_start[i], NormRegion(df[i].region)>>
        grouped == {i \in DOMAIN df : week_start[i] # NaT /\ df[i].region # Null}
    IN  {[week |-> key[1], REGION |-> key[2],
          open_cases_count |-> Cardinality({i \in grouped : KeyOf(i) = key})] : key \in {KeyOf(i) : i \in grouped}}

OspRoles == { <<"I", "d", "a", "p", "t", "i", "v", "e">>, <<"S", "u", "p", "p", "o", "r", "t">> }

OspCompanies == { <<"S", "o", "l", "u", "g", "e", "n", "i", "x">>, <<"H", "e", "l", "p", "w", "a", "r", "e">> }

\* osp_kcs_engagement; today is pd.Timestamp.today(), whose time of day the
\* window's two ends keep.
osp_kcs_engagement(df_cases, today) ==
    LET first_of_this_month == [today EXCEPT !.d = 1]
        last_month_end == MinusOneDay(first_of_this_month)
        last_month_start == [last_month_end EXCEPT !.d = 1]
        mask == [i \in DOMAIN df_cases |->
                   /\ PdEq(StrStrip(df_cases[i].case_record_type), External)
                   /\ StrContains(df_cases[i].owner_role, OspRoles)
                   /\ PdNe(StrStrip(df_cases[i].status), ClosedPurged)
                   /\ IsIn(df_cases[i].owner_company, OspCompanies)
                   /\ TsGe(df_cases[i].created_date, last_month_start)
                   /\ TsLe(df_cases[i].created_date, last_month_end)]
        filtered == Filter(df_cases, mask)
        notna_mask == [i \in DOMAIN filtered |-> NotNa(filtered[i].close_reason)]
        valid_mask == MaskAnd(notna_mask, [i \in DOMAIN filtered |-> IsIn(StrCasefold(filtered[i].close_reason), CLOSE_REASONS)])
        denom == MaskSum(notna_mask)
        num == MaskSum(valid_mask)
    IN  [filtered_df |-> filtered,
         count |-> Cardinality(DOMAIN filtered),
         close_reason_ratio |-> IF denom # 0 THEN Some(Round3(num, denom)) ELSE None,
         close_reason_denom |-> denom]

AllowedTypes == { <<"F", "A", "Q">>, <<"H", "o", "w", " ", "T", "o">>, <<"T", "e", "c", "h", "n", "i", "c", "a", "l", " ", "I", "s", "s", "u", "e">> }

BIIntegration == <<"B", "I", " ", "I", "n", "t", "e", "g", "r", "a", "t", "i", "o", "n">>

Online == <<"O", "n", "l", "i", "n", "e">>

\* the rows both article counts start from: allowed type, creator other
\* than BI Integration, latest version
CountableArticles(df) ==
    LET df1 == Filter(df, [i \in DOMAIN df |-> IsIn(df[i].article_type, AllowedTypes)])
        df2 == Filter(df1, [i \in DOMAIN df1 |-> PdNe(df1[i].creator_name, BIIntegration)])
    IN  Filter(df2, [i \in DOMAIN df2 |-> df2[i].version_is_latest = TRUE])

\* count_created_articles: created_at compared as a timestamp
count_created_articles(df0, start, end) ==
    LET df == CountableArticles(df0)
        created_in_range == [i \in DOMAIN df |-> TsGe(df[i].created_at, start) /\ TsLe(df[i].created_at, end)]
    IN  Cardinality(DOMAIN Filter(df, created_in_range))

\* the rows counted instead of the distinct values
NUnique_Rows(series) == Cardinality({i \in DOMAIN series : series[i] # Null})

\* Series.nunique(): the distinct values, missing ones left out
NUnique(series) == Cardinality({series[i] : i \in DOMAIN series} \ {Null})

\* count_published_articles: published_at compared by calendar date
count_published_articles(df0, start, end) ==
    LET df == CountableArticles(df0)
        published_df == Filter(df, [i \in DOMAIN df |-> PdEq(df[i].publish_status, Online)])
        start_dt == DateOf(start)
        end_dt == DateOf(end)
        published_dates == [i \in DOMAIN published_df |-> DateOf(published_df[i].published_at)]
        published_in_range == [i \in DOMAIN published_df |->
                                  TsGe(published_dates[i], start_dt) /\ TsLe(published_dates[i], end_dt)]
    IN  NUnique(Column(Filter(published_df, published_in_range), "article_id"))

PublishTypes == { <<"F", "A", "Q">>, <<"T", "e", "c", "h", "n", "i", "c", "a", "l", " ", "I", "s", "s", "u", "e">>, <<"H", "o", "w", " ", "T", "o">> }

\* the mask without its last clause
MdpMask_NoInternalClause(df) ==
    [i \in DOMAIN df |->
        /\ PdEq(df[i].publish_status, Online)
        /\ df[i].visible_to_customers = TRUE
        /\ df[i].version_is_latest = TRUE
        /\ IsIn(df[i].article_type, PublishTypes)
        /\ NotNa(df[i].published_at)
        /\ PdNe(df[i].published_at, <<>>)
        /\ PdNe(df[i].published_by_name, <<>>)]

\* median_days_to_publish.mask: the eight clauses; a comparison of a missing
\* value with == is False and with != is True.  The internal flag and
\* days_to_publish are optional values: Some(x), or None when missing.
MdpMask(df) ==
    [i \in DOMAIN df |->
        /\ PdEq(df[i].publish_status, Online)
        /\ df[i].visible_to_customers = TRUE
        /\ df[i].version_is_latest = TRUE
        /\ IsIn(df[i].article_type, PublishTypes)
        /\ NotNa(df[i].published_at)
        /\ PdNe(df[i].published_at, <<>>)
        /\ PdNe(df[i].published_by_name, <<>>)
        /\ df[i].internal = Some(FALSE)]

\* Series.dropna() on a numeric column, the values unwrapped
DropNa(series) == [i \in {j \in DOMAIN series : series[j] # None} |-> CHOOSE x \in series[i] : TRUE]

\* the values of a Series in ascending order
RECURSIVE SortedInsert(_, _)
SortedInsert(s, x) ==
    IF s = <<>> THEN <<x>>
    ELSE IF x <= Head(s) THEN <<x>> \o s
    ELSE <<Head(s)>> \o SortedInsert(Tail(s), x)

RECURSIVE SortValues(_)
SortValues(series) ==
    IF DOMAIN series = {} THEN <<>>
    ELSE LET i == CHOOSE j \in DOMAIN series : TRUE
         IN  SortedInsert(SortValues([k \in DOMAIN series \ {i} |-> series[k]]), series[i])

\* Series.median() of a non-empty Series of whole days, in halves of a day:
\* the middle value, or the mean of the two middle values
Median(series) ==
    LET s == SortValues(series)
        n == Len(s)
    IN  IF n % 2 = 1 THEN 2 * s[(n + 1) \div 2] ELSE s[n \div 2] + s[n \div 2 + 1]

\* median_days_to_publish (a table always has the days_to_publish column
\* here); the float result is in halves of a day
median_days_to_publish(df) ==
    LET mask == MdpMask(df)
        valid_days == DropNa(Column(Filter(df, mask), "days_to_publish"))
    IN  IF DOMAIN valid_days = {} THEN None ELSE Some(Median(valid_days))

\* ------------------------------------------------------------ clean.py

\* The entries of clean_articles' wanted = {...} in the order they are
\* written; the source column PUBLISHED_BY_NAME is written twice.
ArticlesWanted == <<
    <<"PUBLISHED_BY_NAME", "publisher">>,
    <<"PUBLISHED_BY_REGION", "region">>,
    <<"PUBLIC_KB_VIEWCOUNT", "views_by_customers">>,
    <<"ARTICLE_NUMBER", "article_id">>,
    <<"ARTICLE_FIRST_PUBLISHED_DATE", "published_at">>,
    <<"DAYS_TO_PUBLISH", "days_to_publish">>,
    <<"ARTICLE_TYPE", "article_type">>,
    <<"PUBLISH_STATUS", "publish_status">>,
    <<"INTERNAL", "internal">>,
    <<"ARTILE_TITLE", "title">>,
    <<"COMMUNITY_ARTICLE_URL", "community_article_url">>,
    <<"ARTICLE_CASE_ATTACH_COUNT", "article_attach_count">>,
    <<"CREATOR_REGION", "creator_region">>,
    <<"ARTICLE_CREATED_DATE", "created_at">>,
    <<"CREATOR_NAME", "creator_name">>,
    <<"VISIBLE_IN_CUSTOMER_PORTAL", "visible_to_customers">>,
    <<"VERSION_IS_LATEST", "version_is_latest">>,
    <<"PUBLISHED_BY_NAME", "published_by_name">>
    >>

\* The entries of clean_cases' wanted = {...}
CasesWanted == <<
    <<"CASE_NUMBER", "case_id">>,
    <<"CREATED_DATE", "created_date">>,
    <<"CLOSED_DATE", "closed_date">>,
    <<"REGION", "region">>,
    <<"PRODUCT", "product">>,
    <<"OWNER_NAME", "owner_name">>,
    <<"CREATED_BY_REGION", "created_by_region">>,
    <<"AGE", "age">>,
    <<"CUSTOMER_ACCOUNT_REGION", "customer_account_region">>,
    <<"ATTACHED_ARTICLE_COUNT", "attached_article_count">>,
    <<"CLOSE_REASON", "close_reason">>,
    <<"STATUS", "status">>,
    <<"RECORD_TYPE", "case_record_type">>,
    <<"OWNER_ROLE", "owner_role">>,
    <<"OWNER_COMPANY", "owner_company">>
    >>

\* A dict display {key: value, ...}: one item per distinct key, its value
\* the one of the key's last entry
DictDisplay(entries) ==
    LET keys == {entries[k][1] : k \in DOMAIN entries}
    IN  [key \in keys |-> entries[CHOOSE k \in DOMAIN entries :
                                      entries[k][1] = key /\ \A l \in DOMAIN entries : entries[l][1] = key => l <= k][2]]

\* the columns of a raw table: rows are functions from column names to
\* values, all with the same columns
ColumnsOf(df, schema) == IF df = <<>> THEN schema ELSE DOMAIN df[1]

KeyError == [raised |-> "KeyError"]

Returned(value) == [raised |-> "none", value |-> value]

\* df[wanted.keys()].rename(columns=wanted): the lookup fails when a key is
\* not a column; the selected columns are renamed, the others dropped
SelectAndRename(df, columns, wanted) ==
    IF ~(DOMAIN wanted \subseteq columns) THEN KeyError
    ELSE Returned([i \in DOMAIN df |->
             [name \in {wanted[key] : key \in DOMAIN wanted} |->
                 df[i][CHOOSE key \in DOMAIN wanted : wanted[key] = name]]])

\* Series.fillna(0).astype(int) on optional numbers
FillNa0AsInt(v) == IF v = None THEN 0 ELSE CHOOSE x \in v : TRUE

\* clean_articles; columns are the columns of df
clean_articles(df, columns) ==
    LET wanted == DictDisplay(ArticlesWanted)
        selected == SelectAndRename(df, columns, wanted)
    IN  IF selected.raised # "none" THEN selected
        ELSE Returned([i \in DOMAIN selected.value |->
                 [selected.value[i] EXCEPT !["views_by_customers"] = FillNa0AsInt(@)]])

\* clean_cases; columns are the columns of df
clean_cases(df, columns) == SelectAndRename(df, columns, DictDisplay(CasesWanted))

\* ------------------------------------------------------------ queries.py

\* date.isoformat(): "YYYY-MM-DD", kept as the triple <<year, month, day>>
IsoFormat(date) == <<date.y, date.m, date.d>>

\* one year borrowed at most
BorrowYears_Once(month, year) == IF month <= 0 THEN <<month + 12, year - 1>> ELSE <<month, year>>

\* while month <= 0: month += 12; year -= 1
RECURSIVE BorrowYears(_, _)
BorrowYears(month, year) == IF month <= 0 THEN BorrowYears(month + 12, year - 1) ELSE <<month, year>>

\* last_n_months_window(n), today being the value of date.today()
last_n_months_window(n, today) ==
    LET first_this_month == [today EXCEPT !.d = 1]
        borrowed == BorrowYears(first_this_month.m - (n - 1), first_this_month.y)
        first_n_months_ago == [first_this_month EXCEPT !.y = borrowed[2], !.m = borrowed[1]]
    IN  <<IsoFormat(first_n_months_ago), IsoFormat(today)>>

\* The upstream session: the connections and cursors open at the data
\* source.
NoSession == [connections |-> 0, cursors |-> 0]

Raised(error) == [raised |-> error]

\* the managers exited only when the block ends without an exception
ExitManagers_OnSuccessOnly(session, entered, failed) ==
    IF failed THEN session
    ELSE [connections |-> session.connections - (IF "cn" \in entered THEN 1 ELSE 0),
          cursors |-> session.cursors - (IF "cur" \in entered THEN 1 ELSE 0)]

\* Leaving "with get_connection() as cn, cn.cursor() as cur": __exit__ of
\* every manager entered, the cursor's then the connection's, each closing
\* its object, whether the block ends by return or by an exception
ExitManagers(session, entered, failed) ==
    [connections |-> session.connections - (IF "cn" \in entered THEN 1 ELSE 0),
     cursors |-> session.cursors - (IF "cur" \in entered THEN 1 ELSE 0)]

\* ------------------------------------------------------------ exporter.py

\* nothing at output_path
NoFile == [pages |-> <<>>, written |-> FALSE]

Digits == {"0", "1", "2", "3", "4", "5", "6", "7", "8", "9"}

\* s.replace('.', '', 1)
RemoveFirstDot(s) ==
    IF \E k \in DOMAIN s : s[k] = "."
        THEN LET k == CHOOSE j \in DOMAIN s : s[j] = "." /\ \A l \in DOMAIN s : s[l] = "." => j <= l
             IN  SubSeq(s, 1, k - 1) \o SubSeq(s, k + 1, Len(s))
        ELSE s

\* str.isdigit()
IsDigit(s) == s # <<>> /\ \A k \in DOMAIN s : s[k] \in Digits

\* hasattr(fig, name): a figure is known by the attributes it has
HasAttr(fig, name) == name \in fig.attrs

\* an unsupported figure left out instead of raising
RenderCharts_SkipUnsupported(figures, k, image_paths) ==
    Returned(SelectSeq([j \in DOMAIN figures |->
                           [title |-> figures[j].title,
                            img_path |-> [chart |-> j - 1, saved_by |-> IF HasAttr(figures[j].fig, "write_image") THEN "write_image" ELSE "savefig"],
                            insight |-> figures[j].insight,
                            fig |-> figures[j].fig]],
                       LAMBDA p : HasAttr(p.fig, "write_image") \/ HasAttr(p.fig, "savefig")))

\* The first loop of export_report_pdf from the k-th triple on: every
\* figure saved as chart_<idx>.png, idx counted from 0, by write_image or
\* else by savefig; ValueError at the first figure that has neither
RECURSIVE RenderCharts(_, _, _)
RenderCharts(figures, k, image_paths) ==
    IF k > Len(figures) THEN Returned(image_paths)
    ELSE IF HasAttr(figures[k].fig, "write_image")
        THEN RenderCharts(figures, k + 1, Append(image_paths,
                 [title |-> figures[k].title, img_path |-> [chart |-> k - 1, saved_by |-> "write_image"],
                  insight |-> figures[k].insight, fig |-> figures[k].fig]))
    ELSE IF HasAttr(figures[k].fig, "savefig")
        THEN RenderCharts(figures, k + 1, Append(image_paths,
                 [title |-> figures[k].title, img_path |-> [chart |-> k - 1, saved_by |-> "savefig"],
                  insight |-> figures[k].insight, fig |-> figures[k].fig]))
    ELSE Raised("ValueError")

\* the text written under a chart: none for an empty insight, the KCS
\* engagement sentence for a number given with the first chart, else the
\* insight itself
InsightText(idx, insight) ==
    IF insight = <<>> THEN [kind |-> "none"]
    ELSE IF idx = 0 /\ IsDigit(RemoveFirstDot(insight))
        THEN [kind |-> "format_kcs_engagement_insight", text |-> insight]
    ELSE [kind |-> "str", text |-> insight]

\* the page of pdf.add_page() at the top of the document
HeaderPage == [title |-> "KCS Report"]

\* the page of one (title, img_path, insight)
ChartPage(idx, entry) ==
    [title |-> entry.title, image |-> entry.img_path, figure |-> entry.fig, insight |-> InsightText(idx, entry.insight)]

\* export_report_pdf: the value returned or the exception raised, and the
\* file at output_path afterwards
export_report_pdf(figures, file) ==
    LET rendered == RenderCharts(figures, 1, <<>>)
    IN  IF rendered.raised # "none" THEN [result |-> rendered, file |-> file]
        ELSE LET image_paths == rendered.value
                 pages == <<HeaderPage>> \o [k \in DOMAIN image_paths |-> ChartPage(k - 1, image_paths[k])]
             IN  [result |-> Returned(None), file |-> [pages |-> pages, written |-> TRUE]]

\* ------------------------------------------------------------ the table passed in

\* A name of a function body is bound to a table object: the caller's own
\* table, a copy of it, or the new table a selection makes.

\* no copy made: the name stays bound to the caller's table
Copy_SameObject(df) == [obj |-> "caller", rows |-> df]

\* df.copy()
Copy(df) == [obj |-> "copy", rows |-> df]

\* df[mask], df[columns].rename(...): a new table
Selection(rows) == [obj |-> "selection", rows |-> rows]

\* df[name] = values: the column is set in place on the table the name is
\* bound to
SetColumn(frame, name, values) ==
    [frame EXCEPT !.rows = [i \in DOMAIN frame.rows |->
        [f \in DOMAIN frame.rows[i] \cup {name} |-> IF f = name THEN values[i] ELSE frame.rows[i][f]]]]

\* the caller's table when the function has ended
CallerTable(df, frame) == IF frame.obj = "caller" THEN frame.rows ELSE df

\* close_reason_ratio_last_n_months and ..._by_region: the copy, then
\* created_date converted and month derived in place
MonthColumnsFrame(df_cases) ==
    LET df1 == Copy(df_cases)
        df2 == SetColumn(df1, "created_date", [i \in DOMAIN df1.rows |-> df1.rows[i].created_date])
        df3 == SetColumn(df2, "month", [i \in DOMAIN df2.rows |->
                   IF df2.rows[i].created_date = NaT THEN NaT ELSE ToPeriodM(df2.rows[i].created_date)])
    IN  CallerTable(df_cases, df3)

\* open_cases_week_over_week_by_region: the copy, the selections, then
\* week_start derived in place on the selected rows
WeekStartFrame(df_cases, end_date) ==
    LET df0 == Copy(df_cases)
        df == Selection(OpenCasesRows(df0.rows, end_date))
        df1 == SetColumn(df, "week_start", [i \in DOMAIN df.rows |-> DateOf(get_month_week_start(df.rows[i].closed_date))])
    IN  CallerTable(df_cases, df1)

\* clean_articles: the copy, the selection, then views_by_customers
\* coerced in place on the selected columns
CleanArticlesFrame(df, columns) ==
    LET df0 == Copy(df)
        selected == SelectAndRename(df0.rows, columns, DictDisplay(ArticlesWanted))
    IN  IF selected.raised # "none" THEN CallerTable(df, df0)
        ELSE LET df1 == Selection(selected.value)
                 df2 == SetColumn(df1, "views_by_customers",
                            [i \in DOMAIN df1.rows |-> FillNa0AsInt(df1.rows[i]["views_by_customers"])])
             IN  CallerTable(df, df2)

\* clean_cases: the copy, then the selection
CleanCasesFrame(df, columns) ==
    LET df0 == Copy(df)
        selected == SelectAndRename(df0.rows, columns, DictDisplay(CasesWanted))
    IN  IF selected.raised # "none" THEN CallerTable(df, df0) ELSE CallerTable(df, Selection(selected.value))

\* ------------------------------------------------------------ the inputs

Case(cr, st, role, type, region, created, closed, company) ==
    [close_reason |-> cr, status |-> st, owner_role |-> role, case_record_type |-> type,
     region |-> region, created_date |-> created, closed_date |-> closed, owner_company |-> company]

BaseCase == Case(<<" ", "A", "r", "t", "i", "c", "l", "e", " ", "C", "r", "e", "a", "t", "e", "d">>, <<"C", "l", "o", "s", "e", "d">>, <<"L", "2", " ", "s", "u", "p", "p", "o", "r", "t">>, <<"E", "x", "t", "e", "r", "n", "a", "l", " ">>, <<"E", "M", "E", "A">>,
                 Ts(2024, 2, 10, 1), Ts(2024, 2, 21, 1), <<"S", "o", "l", "u", "g", "e", "n", "i", "x">>)

\* Cases for the ratio functions: one valid case and cases that differ from
\* it in the field one criterion, one grouping or one window reads.
CasePool == <<
    BaseCase,
    [BaseCase EXCEPT !.region = <<" ", "e", "m", "e", "a", " ">>],
    [BaseCase EXCEPT !.region = <<"A", "d", "m", "i", "n">>],
    [BaseCase EXCEPT !.region = <<"N", "o", "n", "e">>],
    [BaseCase EXCEPT !.region = Null],
    [BaseCase EXCEPT !.region = <<"A", "d", "m", "i", "n", " ", "L", "a", "n", "d", " ", "(", "T", "e", "s", "t", ")", " ">>],
    [BaseCase EXCEPT !.region = <<"A", "l", "l">>],
    [BaseCase EXCEPT !.region = <<" ">>],
    [BaseCase EXCEPT !.region = <<"a", "p", "j">>, !.close_reason = <<"D", "u", "p", "l", "i", "c", "a", "t", "e">>],
    [BaseCase EXCEPT !.close_reason = Null],
    [BaseCase EXCEPT !.close_reason = <<"D", "u", "p", "l", "i", "c", "a", "t", "e">>],
    [BaseCase EXCEPT !.status = <<" ", "C", "l", "o", "s", "e", "d", " ", EnDash, " ", "P", "u", "r", "g", "e", "d">>],
    [BaseCase EXCEPT !.owner_role = <<"U", "s", "e", "r", "s", " ", "A", "c", "c", "e", "s", "s">>],
    [BaseCase EXCEPT !.case_record_type = <<"L", "i", "c", "e", "n", "s", "e">>],
    [BaseCase EXCEPT !.owner_company = <<"A", "c", "m", "e">>],
    [BaseCase EXCEPT !.created_date = Ts(2024, 3, 1, 0)],
    [BaseCase EXCEPT !.created_date = Ts(2024, 1, 31, 2)],
    [BaseCase EXCEPT !.closed_date = Ts(2024, 2, 22, 0), !.region = <<" ", "e", "m", "e", "a", " ">>, !.close_reason = Null],
    [BaseCase EXCEPT !.closed_date = NaT]
    >>

\* Cases for the week buckets: closing days on both sides of every bucket
\* boundary, and the filters of open_cases_week_over_week_by_region.
WeekPool == <<
    [BaseCase EXCEPT !.closed_date = Ts(2024, 1, 1, 0)],
    [BaseCase EXCEPT !.closed_date = Ts(2024, 1, 7, 2)],
    [BaseCase EXCEPT !.closed_date = Ts(2024, 1, 8, 0)],
    [BaseCase EXCEPT !.closed_date = Ts(2024, 1, 14, 2)],
    [BaseCase EXCEPT !.closed_date = Ts(2024, 1, 15, 0)],
    [BaseCase EXCEPT !.closed_date = Ts(2024, 1, 21, 2)],
    [BaseCase EXCEPT !.closed_date = Ts(2024, 1, 22, 0)],
    [BaseCase EXCEPT !.closed_date = Ts(2024, 1, 31, 2)],
    [BaseCase EXCEPT !.closed_date = Ts(2023, 12, 31, 1)],
    [BaseCase EXCEPT !.closed_date = Ts(2024, 2, 29, 1)],
    [BaseCase EXCEPT !.closed_date = NaT],
    [BaseCase EXCEPT !.closed_date = Ts(2024, 1, 21, 2), !.region = <<" ", "e", "m", "e", "a", " ">>],
    [BaseCase EXCEPT !.closed_date = Ts(2024, 1, 22, 0), !.region = <<"a", "p", "j">>],
    [BaseCase EXCEPT !.closed_date = Ts(2024, 1, 15, 0), !.region = Null],
    [BaseCase EXCEPT !.closed_date = Ts(2024, 1, 15, 0), !.region = <<" ">>],
    [BaseCase EXCEPT !.closed_date = Ts(2024, 1, 15, 0), !.region = <<"a", "d", "m", "i", "n", " ", "l", "a", "n", "d", " ", "(", "t", "e", "s", "t", ")">>],
    [BaseCase EXCEPT !.closed_date = Ts(2024, 1, 15, 0), !.owner_role = <<"Q", "u", "e", "u", "e", " ", EnDash, " ", "S", "a", "l", "e", "s", " ", "O", "p", "s">>],
    [BaseCase EXCEPT !.closed_date = Ts(2024, 1, 15, 0), !.owner_role = Null],
    [BaseCase EXCEPT !.closed_date = Ts(2024, 1, 15, 0), !.case_record_type = <<"L", "i", "c", "e", "n", "s", "e">>],
    [BaseCase EXCEPT !.closed_date = Ts(2024, 1, 15, 0), !.case_record_type = Null]
    >>

Article(id, type, creator, latest, status, created, published) ==
    [article_id |-> id, article_type |-> type, creator_name |-> creator, version_is_latest |-> latest,
     publish_status |-> status, created_at |-> created, published_at |-> published]

BaseArticle == Article(<<"K", "A", "-", "1">>, <<"H", "o", "w", " ", "T", "o">>, <<"D", "a", "n", "a">>, TRUE, <<"O", "n", "l", "i", "n", "e">>, Ts(2024, 2, 1, 1), Ts(2024, 2, 10, 1))

ArticlePool == <<
    BaseArticle,
    [BaseArticle EXCEPT !.published_at = Ts(2024, 2, 1, 0), !.created_at = Ts(2024, 2, 1, 0)],
    [BaseArticle EXCEPT !.published_at = Ts(2024, 2, 29, 2), !.created_at = Ts(2024, 2, 29, 2)],
    [BaseArticle EXCEPT !.published_at = Ts(2024, 1, 31, 2), !.created_at = Ts(2024, 1, 31, 2)],
    [BaseArticle EXCEPT !.published_at = Ts(2024, 3, 1, 0), !.created_at = Ts(2024, 3, 1, 0)],
    [BaseArticle EXCEPT !.published_at = NaT],
    [BaseArticle EXCEPT !.article_id = <<"K", "A", "-", "2">>],
    [BaseArticle EXCEPT !.article_id = <<"K", "A", "-", "2">>, !.article_type = <<"F", "A", "Q">>, !.published_at = Ts(2024, 2, 29, 2)],
    [BaseArticle EXCEPT !.article_id = Null],
    [BaseArticle EXCEPT !.article_id = <<"K", "A", "-", "3">>, !.article_type = <<"V", "i", "d", "e", "o">>],
    [BaseArticle EXCEPT !.article_id = <<"K", "A", "-", "3">>, !.creator_name = <<"B", "I", " ", "I", "n", "t", "e", "g", "r", "a", "t", "i", "o", "n">>],
    [BaseArticle EXCEPT !.article_id = <<"K", "A", "-", "3">>, !.creator_name = Null],
    [BaseArticle EXCEPT !.article_id = <<"K", "A", "-", "3">>, !.version_is_latest = FALSE],
    [BaseArticle EXCEPT !.article_id = <<"K", "A", "-", "3">>, !.publish_status = <<"D", "r", "a", "f", "t">>]
    >>

\* A cleaned article row as median_days_to_publish reads it; published_at
\* is the text of a date, internal and days_to_publish are optional values.
PublishedArticle(status, visible, latest, type, published, name, internal, days) ==
    [publish_status |-> status, visible_to_customers |-> visible, version_is_latest |-> latest,
     article_type |-> type, published_at |-> published, published_by_name |-> name,
     internal |-> internal, days_to_publish |-> days]

BasePublished == PublishedArticle(<<"O", "n", "l", "i", "n", "e">>, TRUE, TRUE, <<"F", "A", "Q">>, <<"2", "0", "2", "4", "-", "0", "2", "-", "1", "0">>, <<"D", "a", "n", "a">>, Some(FALSE), Some(3))

PublishedPool == <<
    BasePublished,
    [BasePublished EXCEPT !.days_to_publish = Some(10)],
    [BasePublished EXCEPT !.days_to_publish = Some(4), !.article_type = <<"H", "o", "w", " ", "T", "o">>],
    [BasePublished EXCEPT !.days_to_publish = Some(0), !.published_by_name = Null],
    [BasePublished EXCEPT !.days_to_publish = None],
    [BasePublished EXCEPT !.days_to_publish = Some(20), !.internal = Some(TRUE)],
    [BasePublished EXCEPT !.days_to_publish = Some(21), !.internal = None],
    [BasePublished EXCEPT !.days_to_publish = Some(22), !.publish_status = <<"D", "r", "a", "f", "t">>],
    [BasePublished EXCEPT !.days_to_publish = Some(23), !.visible_to_customers = FALSE],
    [BasePublished EXCEPT !.days_to_publish = Some(24), !.version_is_latest = FALSE],
    [BasePublished EXCEPT !.days_to_publish = Some(25), !.article_type = <<"V", "i", "d", "e", "o">>],
    [BasePublished EXCEPT !.days_to_publish = Some(26), !.published_at = Null],
    [BasePublished EXCEPT !.days_to_publish = Some(27), !.published_at = <<>>],
    [BasePublished EXCEPT !.days_to_publish = Some(28), !.published_by_name = <<>>]
    >>

\* Cases for osp_kcs_engagement: an outsourced-support case created in
\* February 2024 and closed with a KCS close reason, then one field changed
\* at a time; created_date at the first and last instants of February 2024
\* and of December 2023 and just outside them.
BaseOspCase == Case(<<"A", "r", "t", "i", "c", "l", "e", " ", "C", "r", "e", "a", "t", "e", "d">>, <<"C", "l", "o", "s", "e", "d">>, <<"L", "2", " ", "s", "u", "p", "p", "o", "r", "t">>, <<"E", "x", "t", "e", "r", "n", "a", "l", " ">>, <<"E", "M", "E", "A">>,
                    Ts(2024, 2, 10, 1), Ts(2024, 2, 21, 1), <<"S", "o", "l", "u", "g", "e", "n", "i", "x">>)

OspPool == <<
    BaseOspCase,
    [BaseOspCase EXCEPT !.close_reason = <<"a", "r", "t", "i", "c", "l", "e", " ", "c", "r", "e", "a", "t", "e", "d">>],
    [BaseOspCase EXCEPT !.close_reason = <<"S", "O", "L", "V", "E", "D", " ", "B", "Y", " ", "E", "X", "I", "S", "T", "I", "N", "G", " ", "D", "O", "C">>, !.owner_company = <<"H", "e", "l", "p", "w", "a", "r", "e">>],
    [BaseOspCase EXCEPT !.close_reason = <<"D", "u", "p", "l", "i", "c", "a", "t", "e">>],
    [BaseOspCase EXCEPT !.close_reason = Null],
    [BaseOspCase EXCEPT !.case_record_type = <<"L", "i", "c", "e", "n", "s", "e">>],
    [BaseOspCase EXCEPT !.owner_role = <<"I", "d", "a", "p", "t", "i", "v", "e", " ", "T", "i", "e", "r", " ", "1">>],
    [BaseOspCase EXCEPT !.owner_role = <<"S", "a", "l", "e", "s">>],
    [BaseOspCase EXCEPT !.status = <<" ", "C", "l", "o", "s", "e", "d", " ", EnDash, " ", "P", "u", "r", "g", "e", "d", " ">>],
    [BaseOspCase EXCEPT !.owner_company = <<"A", "c", "m", "e">>],
    [BaseOspCase EXCEPT !.owner_company = Null],
    [BaseOspCase EXCEPT !.created_date = Ts(2024, 2, 1, 0)],
    [BaseOspCase EXCEPT !.created_date = Ts(2024, 2, 1, 2)],
    [BaseOspCase EXCEPT !.created_date = Ts(2024, 2, 29, 0)],
    [BaseOspCase EXCEPT !.created_date = Ts(2024, 2, 29, 2)],
    [BaseOspCase EXCEPT !.created_date = Ts(2024, 1, 31, 2)],
    [BaseOspCase EXCEPT !.created_date = Ts(2024, 3, 1, 0)],
    [BaseOspCase EXCEPT !.created_date = Ts(2023, 12, 1, 0)],
    [BaseOspCase EXCEPT !.created_date = Ts(2023, 12, 31, 2)],
    [BaseOspCase EXCEPT !.created_date = NaT]
    >>

\* Cases for the monthly ratios: created in the current month of a run on
\* 2024-03-15, in the months before it, in the month after it, or at no
\* date; closed with a KCS close reason, with another one, or with none.
MonthPool == <<
    BaseCase,
    [BaseCase EXCEPT !.close_reason = <<"D", "u", "p", "l", "i", "c", "a", "t", "e">>],
    [BaseCase EXCEPT !.close_reason = Null],
    [BaseCase EXCEPT !.region = <<"A", "d", "m", "i", "n">>],
    [BaseCase EXCEPT !.created_date = Ts(2024, 3, 1, 0)],
    [BaseCase EXCEPT !.created_date = Ts(2024, 3, 15, 2), !.close_reason = <<"D", "u", "p", "l", "i", "c", "a", "t", "e">>],
    [BaseCase EXCEPT !.created_date = Ts(2024, 3, 31, 2), !.close_reason = Null],
    [BaseCase EXCEPT !.created_date = Ts(2024, 4, 1, 0)],
    [BaseCase EXCEPT !.created_date = Ts(2024, 4, 2, 1), !.close_reason = Null],
    [BaseCase EXCEPT !.created_date = Ts(2025, 1, 5, 1), !.close_reason = <<"D", "u", "p", "l", "i", "c", "a", "t", "e">>],
    [BaseCase EXCEPT !.created_date = Ts(2024, 1, 31, 2)],
    [BaseCase EXCEPT !.created_date = Ts(2024, 1, 1, 0), !.close_reason = <<"D", "u", "p", "l", "i", "c", "a", "t", "e">>],
    [BaseCase EXCEPT !.created_date = Ts(2023, 12, 31, 2)],
    [BaseCase EXCEPT !.created_date = Ts(2023, 12, 1, 0), !.close_reason = Null],
    [BaseCase EXCEPT !.created_date = Ts(2023, 11, 30, 2)],
    [BaseCase EXCEPT !.created_date = NaT]
    >>

\* [start, end] arguments: a month given as dates and as instants of its
\* first and last day
WindowArgs == { <<Ts(2024, 2, 1, 0), Ts(2024, 2, 29, 0)>>, <<Ts(2024, 2, 1, 1), Ts(2024, 2, 29, 1)>> }

\* The cases of the report's end-to-end scenario and how many of each the
\* table holds: valid, purged, without close_reason, owner_role not matching.
ScenarioPool == <<
    BaseCase,
    [BaseCase EXCEPT !.status = <<"C", "l", "o", "s", "e", "d", " ", EnDash, " ", "P", "u", "r", "g", "e", "d">>],
    [BaseCase EXCEPT !.close_reason = Null],
    [BaseCase EXCEPT !.owner_role = <<"S", "a", "l", "e", "s">>]
    >>

ScenarioCounts == <<6, 2, 1, 1>>

CountOf(table, row) == Cardinality({i \in DOMAIN table : table[i] = row})

MaxRows == 3

PoolRank(pool, row) == CHOOSE k \in DOMAIN pool : pool[k] = row

\* The rows that may come next in a table drawn from a pool.  Tables are
\* enumerated up to the order of their rows: rows are appended in the
\* pool's order.
NextRows(pool, table) == {pool[k] : k \in {j \in DOMAIN pool : table = <<>> \/ j >= PoolRank(pool, table[Len(table)])}}

\* region arguments: None, "ALL" and single regions
RegionArgs == {Null, <<"a", "l", "l">>, <<"e", "m", "e", "a">>, <<"A", "D", "M", "I", "N">>}

\* values of pd.Timestamp.today()
Todays == {Ts(2024, 3, 15, 1), Ts(2024, 1, 1, 0)}

NArgs == {1, 2}

\* end_date arguments: None (NaT) and two instants of one day
EndDateArgs == {NaT, Ts(2024, 1, 21, 0), Ts(2024, 2, 21, 1)}

\* values of date.today(): the first, the 15th and the last day of every
\* month of two years
DateTodays == {Ts(y, m, d, 0) : <<y, m, d>> \in
                  {<<y, m, d>> \in {2023, 2024} \X (1..12) \X {1, 15, 28, 29, 30, 31} : d \in {1, 15, DaysInMonth(y, m)}}}

\* the largest n of last_n_months_window(n)
MaxN == 26

\* The columns the two source views deliver (SELECT *): the mapped ones and
\* one more each
ArticleSchema == {ArticlesWanted[k][1] : k \in DOMAIN ArticlesWanted} \cup {"LAST_MODIFIED_DATE"}

CaseSchema == {CasesWanted[k][1] : k \in DOMAIN CasesWanted} \cup {"PRIORITY"}

\* row k of a raw table with the given columns: a view count, or else a
\* value that names its column and row
RawRow(columns, k, views) ==
    [c \in columns |-> IF c = "PUBLIC_KB_VIEWCOUNT" THEN views ELSE <<c, k>>]

ViewCounts == {None, Some(7)}

\* the largest number of columns a source view has lost
MaxMissing == 2

\* [start, end] arguments of the two fetch functions
FetchWindows == { << <<2024, 2, 1>>, <<2024, 2, 29>> >>, << <<2023, 12, 1>>, <<2023, 12, 31>> >> }

\* what the connector raises when the data source fails
UpstreamErrors == {"OperationalError", "ProgrammingError"}

\* the tables a query may deliver
FetchedTables(schema) == {[i \in 1..n |-> RawRow(schema, i, None)] : n \in 0..MaxRows}

\* figures: a plotly figure, a matplotlib figure, and a table, which is
\* neither
PlotlyFigure == [attrs |-> {"write_image", "to_json"}]

MatplotlibFigure == [attrs |-> {"savefig"}]

DataFrameObject == [attrs |-> {"to_csv"}]

FigurePool == {[title |-> t, fig |-> f, insight |-> i] :
                  t \in {"KCS Engagement", "Open Cases"},
                  f \in {PlotlyFigure, MatplotlibFigure, DataFrameObject},
                  i \in { <<>>, <<"8", "7", ".", "5">>, <<"U", "p", " ", "3", "%", ".">> }}

\* the largest number of charts of a report
MaxFigures == 2

FigureLists == UNION {[1..n -> FigurePool] : n \in 0..MaxFigures}

\* a report left at output_path by an earlier run
OldReport == [pages |-> <<HeaderPage>>, written |-> TRUE]

\* Tables for the calls made one after the other on one table: all the
\* tables of up to MaxRows rows, in any order, of a few cleaned cases, of a
\* few cleaned articles, and raw tables as fetched.
FrameCaseRows == {
    BaseCase,
    [BaseCase EXCEPT !.created_date = Ts(2024, 3, 1, 0), !.closed_date = Ts(2024, 3, 8, 2), !.region = <<" ", "e", "m", "e", "a", " ">>],
    [BaseCase EXCEPT !.created_date = Ts(2024, 1, 31, 2), !.closed_date = NaT, !.region = <<"A", "d", "m", "i", "n">>],
    [BaseCase EXCEPT !.created_date = NaT, !.close_reason = Null, !.owner_role = <<"U", "s", "e", "r", "s", " ", "A", "c", "c", "e", "s", "s">>],
    [BaseCase EXCEPT !.close_reason = <<"D", "u", "p", "l", "i", "c", "a", "t", "e">>, !.region = Null],
    [BaseCase EXCEPT !.region = <<" ", "i", "n", "t", "e", "r", "n", "a", "l">>]
    }

FrameArticleRows == {
    BaseArticle,
    [BaseArticle EXCEPT !.article_id = <<"K", "A", "-", "2">>, !.published_at = NaT],
    [BaseArticle EXCEPT !.article_id = Null, !.article_type = <<"V", "i", "d", "e", "o">>]
    }

FramePublishedRows == {
    BasePublished,
    [BasePublished EXCEPT !.days_to_publish = Some(10)],
    [BasePublished EXCEPT !.days_to_publish = None, !.internal = Some(TRUE)]
    }

FrameTables(rows) == UNION {[1..n -> rows] : n \in 0..MaxRows}

RawArticleTables == {[i \in 1..n |-> RawRow(ArticleSchema, i, views)] : n \in 0..MaxRows, views \in ViewCounts}

FrameInputs ==
    {[cases |-> t, articles |-> <<>>] : t \in FrameTables(FrameCaseRows) \cup FetchedTables(CaseSchema)}
    \cup {[cases |-> <<>>, articles |-> t] :
             t \in FrameTables(FrameArticleRows) \cup FrameTables(FramePublishedRows) \cup RawArticleTables}

NoCall == [op |-> "none"]

Init ==
    /\ cases = <<>>
    /\ articles = <<>>
    /\ call = NoCall
    /\ ret = None
    /\ snowflake = NoSession
    /\ output_file = NoFile

\* The case table of a run is read before any metric is computed on it.
AddCase ==
    /\ call = NoCall
    /\ Len(cases) < MaxRows
    /\ \E row \in NextRows(CasePool, cases) : cases' = Append(cases, row)
    /\ UNCHANGED <<articles, call, ret, snowflake, output_file>>

AddOspCase ==
    /\ call = NoCall
    /\ Len(cases) < MaxRows
    /\ \E row \in NextRows(OspPool, cases) : cases' = Append(cases, row)
    /\ UNCHANGED <<articles, call, ret, snowflake, output_file>>

AddMonthCase ==
    /\ call = NoCall
    /\ Len(cases) < MaxRows
    /\ \E row \in NextRows(MonthPool, cases) : cases' = Append(cases, row)
    /\ UNCHANGED <<articles, call, ret, snowflake, output_file>>

AddClosedCase ==
    /\ call = NoCall
    /\ Len(cases) < MaxRows
    /\ \E row \in NextRows(WeekPool, cases) : cases' = Append(cases, row)
    /\ UNCHANGED <<articles, call, ret, snowflake, output_file>>

CallCloseReasonRatio ==
    /\ call = NoCall
    /\ \E region \in RegionArgs :
        /\ call' = [op |-> "close_reason_ratio", region |-> region]
        /\ ret' = close_reason_ratio(cases, region)
    /\ UNCHANGED <<cases, articles, snowflake, output_file>>

CallCloseReasonRatioByRegion ==
    /\ call = NoCall
    /\ \E n \in NArgs, today \in Todays :
        /\ call' = [op |-> "close_reason_ratio_last_n_months_by_region", n |-> n, today |-> today]
        /\ ret' = close_reason_ratio_last_n_months_by_region(cases, n, today)
    /\ cases' = MonthColumnsFrame(cases)
    /\ UNCHANGED <<articles, snowflake, output_file>>

CallGetValidCasesAndRatio ==
    /\ call = NoCall
    /\ \E region \in RegionArgs :
        /\ call' = [op |-> "get_valid_cases_and_ratio", region |-> region]
        /\ ret' = get_valid_cases_and_ratio(cases, region)
    /\ UNCHANGED <<cases, articles, snowflake, output_file>>

CallGetAllRegions ==
    /\ call = NoCall
    /\ call' = [op |-> "get_all_regions_valid_cases_and_ratios"]
    /\ ret' = get_all_regions_valid_cases_and_ratios(cases)
    /\ UNCHANGED <<cases, articles, snowflake, output_file>>

CallOpenCases ==
    /\ call = NoCall
    /\ \E end_date \in EndDateArgs :
        /\ call' = [op |-> "open_cases_week_over_week_by_region", end_date |-> end_date]
        /\ ret' = open_cases_week_over_week_by_region(cases, end_date)
        /\ cases' = WeekStartFrame(cases, end_date)
    /\ UNCHANGED <<articles, snowflake, output_file>>

CallOspKcsEngagement ==
    /\ call = NoCall
    /\ \E today \in Todays :
        /\ call' = [op |-> "osp_kcs_engagement", today |-> today]
        /\ ret' = osp_kcs_engagement(cases, today)
    /\ UNCHANGED <<cases, articles, snowflake, output_file>>

AddArticle ==
    /\ call = NoCall
    /\ Len(articles) < MaxRows
    /\ \E row \in NextRows(ArticlePool, articles) : articles' = Append(articles, row)
    /\ UNCHANGED <<cases, call, ret, snowflake, output_file>>

AddScenarioCase ==
    /\ call = NoCall
    /\ \E k \in DOMAIN ScenarioPool :
        /\ CountOf(cases, ScenarioPool[k]) < ScenarioCounts[k]
        /\ cases' = Append(cases, ScenarioPool[k])
    /\ UNCHANGED <<articles, call, ret, snowflake, output_file>>

CallCountCreatedArticles ==
    /\ call = NoCall
    /\ \E w \in WindowArgs :
        /\ call' = [op |-> "count_created_articles", start |-> w[1], end |-> w[2]]
        /\ ret' = count_created_articles(articles, w[1], w[2])
    /\ UNCHANGED <<cases, articles, snowflake, output_file>>

CallCountPublishedArticles ==
    /\ call = NoCall
    /\ \E w \in WindowArgs :
        /\ call' = [op |-> "count_published_articles", start |-> w[1], end |-> w[2]]
        /\ ret' = count_published_articles(articles, w[1], w[2])
    /\ UNCHANGED <<cases, articles, snowflake, output_file>>

AddPublishedArticle ==
    /\ call = NoCall
    /\ Len(articles) < MaxRows
    /\ \E row \in NextRows(PublishedPool, articles) : articles' = Append(articles, row)
    /\ UNCHANGED <<cases, call, ret, snowflake, output_file>>

CallMedianDaysToPublish ==
    /\ call = NoCall
    /\ call' = [op |-> "median_days_to_publish"]
    /\ ret' = median_days_to_publish(articles)
    /\ UNCHANGED <<cases, articles, snowflake, output_file>>

CallLastNMonthsWindow ==
    /\ call = NoCall
    /\ \E today \in DateTodays, n \in 1..MaxN :
        /\ call' = [op |-> "last_n_months_window", n |-> n, today |-> today]
        /\ ret' = last_n_months_window(n, today)
    /\ UNCHANGED <<cases, articles, snowflake, output_file>>

CallCloseReasonRatioLastNMonths ==
    /\ call = NoCall
    /\ \E today \in Todays, n \in NArgs :
        /\ call' = [op |-> "close_reason_ratio_last_n_months", n |-> n, today |-> today]
        /\ ret' = close_reason_ratio_last_n_months(cases, n, today)
    /\ cases' = MonthColumnsFrame(cases)
    /\ UNCHANGED <<articles, snowflake, output_file>>

\* The raw tables of the Normalizer, one at a time: fetched rows, and
\* columns gone from the source view.
AddRawArticle ==
    /\ call = NoCall
    /\ cases = <<>>
    /\ Len(articles) < MaxRows
    /\ \E views \in ViewCounts :
          articles' = Append(articles, RawRow(ColumnsOf(articles, ArticleSchema), Len(articles) + 1, views))
    /\ UNCHANGED <<cases, call, ret, snowflake, output_file>>

AddRawCase ==
    /\ call = NoCall
    /\ articles = <<>>
    /\ Len(cases) < MaxRows
    /\ cases' = Append(cases, RawRow(ColumnsOf(cases, CaseSchema), Len(cases) + 1, None))
    /\ UNCHANGED <<articles, call, ret, snowflake, output_file>>

DropArticleColumn ==
    /\ call = NoCall
    /\ articles # <<>>
    /\ Cardinality(ArticleSchema \ ColumnsOf(articles, ArticleSchema)) < MaxMissing
    /\ \E c \in ColumnsOf(articles, ArticleSchema) :
          articles' = [i \in DOMAIN articles |-> [d \in DOMAIN articles[i] \ {c} |-> articles[i][d]]]
    /\ UNCHANGED <<cases, call, ret, snowflake, output_file>>

DropCaseColumn ==
    /\ call = NoCall
    /\ cases # <<>>
    /\ Cardinality(CaseSchema \ ColumnsOf(cases, CaseSchema)) < MaxMissing
    /\ \E c \in ColumnsOf(cases, CaseSchema) :
          cases' = [i \in DOMAIN cases |-> [d \in DOMAIN cases[i] \ {c} |-> cases[i][d]]]
    /\ UNCHANGED <<articles, call, ret, snowflake, output_file>>

CallCleanArticles ==
    /\ call = NoCall
    /\ cases = <<>>
    /\ call' = [op |-> "clean_articles"]
    /\ ret' = clean_articles(articles, ColumnsOf(articles, ArticleSchema))
    /\ articles' = CleanArticlesFrame(articles, ColumnsOf(articles, ArticleSchema))
    /\ UNCHANGED <<cases, snowflake, output_file>>

CallCleanCases ==
    /\ call = NoCall
    /\ articles = <<>>
    /\ call' = [op |-> "clean_cases"]
    /\ ret' = clean_cases(cases, ColumnsOf(cases, CaseSchema))
    /\ cases' = CleanCasesFrame(cases, ColumnsOf(cases, CaseSchema))
    /\ UNCHANGED <<articles, snowflake, output_file>>

\* fetch_ka_window and fetch_cases_window, statement by statement; pc is
\* the next step of the call, failed_at the step that raised.
IsFetch(c) == c.op \in {"fetch_ka_window", "fetch_cases_window"}

CallFetchKaWindow ==
    /\ call = NoCall
    /\ \E w \in FetchWindows :
          call' = [op |-> "fetch_ka_window", start |-> w[1], end |-> w[2], pc |-> "get_connection", failed_at |-> "none"]
    /\ UNCHANGED <<cases, articles, ret, snowflake, output_file>>

CallFetchCasesWindow ==
    /\ call = NoCall
    /\ \E w \in FetchWindows :
          call' = [op |-> "fetch_cases_window", start |-> w[1], end |-> w[2], pc |-> "get_connection", failed_at |-> "none"]
    /\ UNCHANGED <<cases, articles, ret, snowflake, output_file>>

\* get_connection() and cn.__enter__(); when connect raises, nothing has
\* been acquired
GetConnection ==
    /\ IsFetch(call)
    /\ call.pc = "get_connection"
    /\ \/ /\ snowflake' = [snowflake EXCEPT !.connections = @ + 1]
          /\ call' = [call EXCEPT !.pc = "cursor"]
          /\ UNCHANGED ret
       \/ \E error \in UpstreamErrors :
          /\ call' = [call EXCEPT !.pc = "done", !.failed_at = "get_connection"]
          /\ ret' = Raised(error)
          /\ UNCHANGED snowflake
    /\ UNCHANGED <<cases, articles, output_file>>

\* cn.cursor() and cur.__enter__()
OpenCursor ==
    /\ IsFetch(call)
    /\ call.pc = "cursor"
    /\ \/ /\ snowflake' = [snowflake EXCEPT !.cursors = @ + 1]
          /\ call' = [call EXCEPT !.pc = "execute"]
          /\ UNCHANGED ret
       \/ \E error \in UpstreamErrors :
          /\ call' = [call EXCEPT !.pc = "done", !.failed_at = "cursor"]
          /\ ret' = Raised(error)
          /\ snowflake' = ExitManagers(snowflake, {"cn"}, TRUE)
    /\ UNCHANGED <<cases, articles, output_file>>

\* cur.execute(query, {"start": start, "end": end})
Execute ==
    /\ IsFetch(call)
    /\ call.pc = "execute"
    /\ \/ /\ call' = [call EXCEPT !.pc = "fetch_pandas_all"]
          /\ UNCHANGED <<ret, snowflake>>
       \/ \E error \in UpstreamErrors :
          /\ call' = [call EXCEPT !.pc = "done", !.failed_at = "execute"]
          /\ ret' = Raised(error)
          /\ snowflake' = ExitManagers(snowflake, {"cn", "cur"}, TRUE)
    /\ UNCHANGED <<cases, articles, output_file>>

\* return cur.fetch_pandas_all()
FetchPandasAll ==
    /\ IsFetch(call)
    /\ call.pc = "fetch_pandas_all"
    /\ \/ \E table \in FetchedTables(IF call.op = "fetch_ka_window" THEN ArticleSchema ELSE CaseSchema) :
          /\ call' = [call EXCEPT !.pc = "done"]
          /\ ret' = Returned(table)
          /\ snowflake' = ExitManagers(snowflake, {"cn", "cur"}, FALSE)
       \/ \E error \in UpstreamErrors :
          /\ call' = [call EXCEPT !.pc = "done", !.failed_at = "fetch_pandas_all"]
          /\ ret' = Raised(error)
          /\ snowflake' = ExitManagers(snowflake, {"cn", "cur"}, TRUE)
    /\ UNCHANGED <<cases, articles, output_file>>

\* The caller has the table (df_ka = fetch_ka_window(start, end)) or the
\* exception.
FetchReturns ==
    /\ IsFetch(call)
    /\ call.pc = "done"
    /\ call' = NoCall
    /\ ret' = None
    /\ articles' = IF call.op = "fetch_ka_window" /\ ret.raised = "none" THEN ret.value ELSE articles
    /\ cases' = IF call.op = "fetch_cases_window" /\ ret.raised = "none" THEN ret.value ELSE cases
    /\ UNCHANGED <<snowflake, output_file>>

\* An earlier run has left its report at output_path.
LeaveOldReport ==
    /\ call = NoCall
    /\ output_file = NoFile
    /\ output_file' = OldReport
    /\ UNCHANGED <<cases, articles, call, ret, snowflake>>

\* A run exports its report once, at the end.
CallExportReportPdf ==
    /\ call = NoCall
    /\ output_file \in {NoFile, OldReport}
    /\ \E figures \in FigureLists :
        LET done == export_report_pdf(figures, output_file)
        IN  /\ call' = [op |-> "export_report_pdf", figures |-> figures, file_before |-> output_file]
            /\ ret' = done.result
            /\ output_file' = done.file
    /\ UNCHANGED <<cases, articles, snowflake>>

\* The call returns to the caller, which goes on to the next metric.
Return ==
    /\ call # NoCall
    /\ call' = NoCall
    /\ ret' = None
    /\ UNCHANGED <<cases, articles, snowflake, output_file>>

Next ==
    \/ AddCase
    \/ CallCloseReasonRatio
    \/ CallCloseReasonRatioByRegion
    \/ CallGetValidCasesAndRatio
    \/ CallGetAllRegions
    \/ CallOpenCases
    \/ CallOspKcsEngagement
    \/ Return

Spec == Init /\ [][Next]_vars

NextWeek ==
    \/ AddClosedCase
    \/ CallOpenCases
    \/ Return

SpecWeek == Init /\ [][NextWeek]_vars

NextArticles ==
    \/ AddArticle
    \/ CallCountCreatedArticles
    \/ CallCountPublishedArticles
    \/ Return

SpecArticles == Init /\ [][NextArticles]_vars

NextMedian ==
    \/ AddPublishedArticle
    \/ CallMedianDaysToPublish
    \/ Return

SpecMedian == Init /\ [][NextMedian]_vars

NextWindow ==
    \/ CallLastNMonthsWindow
    \/ Return

SpecWindow == Init /\ [][NextWindow]_vars

NextOsp ==
    \/ AddOspCase
    \/ CallOspKcsEngagement
    \/ Return

SpecOsp == Init /\ [][NextOsp]_vars

NextMonths ==
    \/ AddMonthCase
    \/ CallCloseReasonRatioLastNMonths
    \/ Return

SpecMonths == Init /\ [][NextMonths]_vars

NextClean ==
    \/ AddRawArticle
    \/ AddRawCase
    \/ DropArticleColumn
    \/ DropCaseColumn
    \/ CallCleanArticles
    \/ CallCleanCases
    \/ Return

SpecClean == Init /\ [][NextClean]_vars

NextFetch ==
    \/ CallFetchKaWindow
    \/ CallFetchCasesWindow
    \/ GetConnection
    \/ OpenCursor
    \/ Execute
    \/ FetchPandasAll
    \/ FetchReturns

SpecFetch == Init /\ [][NextFetch]_vars

NextExport ==
    \/ LeaveOldReport
    \/ CallExportReportPdf
    \/ Return

SpecExport == Init /\ [][NextExport]_vars

\* Calls made one after the other on the same table; a function is given
\* a table that has the columns it reads, the Normalizer functions any
\* table.
HasColumn(table, name) == \A i \in DOMAIN table : name \in DOMAIN table[i]

InitFrames ==
    /\ \E input \in FrameInputs :
          /\ cases = input.cases
          /\ articles = input.articles
    /\ call = NoCall
    /\ ret = None
    /\ snowflake = NoSession
    /\ output_file = NoFile

NextFrames ==
    \/ HasColumn(cases, "close_reason") /\ CallCloseReasonRatio
    \/ HasColumn(cases, "close_reason") /\ CallCloseReasonRatioLastNMonths
    \/ HasColumn(cases, "close_reason") /\ CallCloseReasonRatioByRegion
    \/ HasColumn(cases, "close_reason") /\ CallGetValidCasesAndRatio
    \/ HasColumn(cases, "close_reason") /\ CallGetAllRegions
    \/ HasColumn(cases, "close_reason") /\ CallOpenCases
    \/ HasColumn(cases, "close_reason") /\ CallOspKcsEngagement
    \/ HasColumn(articles, "article_id") /\ CallCountCreatedArticles
    \/ HasColumn(articles, "article_id") /\ CallCountPublishedArticles
    \/ HasColumn(articles, "days_to_publish") /\ CallMedianDaysToPublish
    \/ CallCleanArticles
    \/ CallCleanCases
    \/ Return

SpecFrames == InitFrames /\ [][NextFrames]_vars

NextScenario ==
    \/ AddScenarioCase
    \/ CallCloseReasonRatio
    \/ Return

SpecScenario == Init /\ [][NextScenario]_vars

\* ------------------------------------------------------------ properties

Abs(x) == IF x < 0 THEN -x ELSE x

\* r is num/denom rounded to three decimals: the thousandth nearest to it
IsRounded(r, num, denom) == \E x \in 0..1000 : r = Some(x) /\ 2 * Abs(1000 * num - x * denom) <= denom

\* r is the ratio of num to denom, undefined when denom is 0
IsRatioOf(r, num, denom) == IF denom = 0 THEN r = None ELSE IsRounded(r, num, denom)

\* a region as the aggregations key it: trimmed and upper-cased
TrimmedUpper(s) == StrUpper(StrStrip(s))

\* Validity criteria 1-5 of a case
Criteria1to5(c) ==
    /\ c.close_reason # Null
    /\ StrStrip(c.close_reason) \in CLOSE_REASONS
    /\ StrStrip(c.status) # ClosedPurged
    /\ c.owner_role # Null
    /\ \E pat \in { <<"s", "u", "p", "p", "o", "r", "t">>, <<"i", "d", "a", "p", "t", "i", "v", "e">>, <<"e", "p", "m">> } :
          \E k \in 1..Len(c.owner_role) : \E l \in k..Len(c.owner_role) : StrCasefold(SubSeq(c.owner_role, k, l)) = pat
    /\ StrStrip(c.case_record_type) = External

\* Criterion 6 fails
InAdminInternal(c) == c.region # Null /\ TrimmedUpper(c.region) \in { <<"A", "D", "M", "I", "N">>, <<"I", "N", "T", "E", "R", "N", "A", "L">> }

KcsValid(c) == Criteria1to5(c) /\ ~InAdminInternal(c)

HasCloseReason(c) == c.close_reason # Null

\* the cases of region R (a missing region is no region)
RegionRows(R) == {i \in DOMAIN cases : cases[i].region # Null /\ TrimmedUpper(cases[i].region) = R}

ValidIn(rows) == Cardinality({i \in rows : KcsValid(cases[i])})

CloseReasonIn(rows) == Cardinality({i \in rows : HasCloseReason(cases[i])})

\* C1: close_reason_ratio(cases, None) is round(V / D, 3), V the KCS-valid
\* rows and D the rows with a close_reason; rows without a close_reason
\* count in neither, and with D = 0 the result is None.
C1_GlobalRatio ==
    (call.op = "close_reason_ratio" /\ call.region = Null) =>
        IsRatioOf(ret, ValidIn(DOMAIN cases), CloseReasonIn(DOMAIN cases))

C1_Witness ==
    /\ call.op = "close_reason_ratio"
    /\ call.region = Null
    /\ \E i \in DOMAIN cases : cases[i].close_reason = Null
    /\ ValidIn(DOMAIN cases) = 1
    /\ ret = Some(500)

\* the scenario's table: 6 valid cases, 2 purged, 1 without close_reason,
\* 1 whose owner_role matches none of Support/Idaptive/EPM
IsScenarioTable == \A k \in DOMAIN ScenarioPool : CountOf(cases, ScenarioPool[k]) = ScenarioCounts[k]

IsPurged(c) == StrStrip(c.status) = ClosedPurged

RoleMatches(c) ==
    /\ c.owner_role # Null
    /\ \E pat \in { <<"s", "u", "p", "p", "o", "r", "t">>, <<"i", "d", "a", "p", "t", "i", "v", "e">>, <<"e", "p", "m">> } :
          \E k \in 1..Len(c.owner_role) : \E l \in k..Len(c.owner_role) : StrCasefold(SubSeq(c.owner_role, k, l)) = pat

\* C2 as claimed: purged cases and cases whose owner_role does not match
\* count in neither numerator nor denominator, like cases without a
\* close_reason; the scenario's ratio is taken over its 6 remaining rows.
C2_ExcludedFromDenominator ==
    (call.op = "close_reason_ratio" /\ call.region = Null) =>
        /\ IsRatioOf(ret, ValidIn(DOMAIN cases),
                     Cardinality({i \in DOMAIN cases : HasCloseReason(cases[i]) /\ ~IsPurged(cases[i]) /\ RoleMatches(cases[i])}))
        /\ IsScenarioTable => ret = Some(1000)

\* C2 as amended: purged cases and cases whose owner_role does not match
\* leave the numerator only; with a close_reason they stay in the
\* denominator.  The scenario's denominator is its 9 rows with a
\* close_reason and its ratio 6/9, 0.667.
C2_ExcludedFromNumeratorOnly ==
    (call.op = "close_reason_ratio" /\ call.region = Null) =>
        /\ IsRatioOf(ret, Cardinality({i \in DOMAIN cases : HasCloseReason(cases[i]) /\ ~IsPurged(cases[i]) /\ RoleMatches(cases[i])}),
                     CloseReasonIn(DOMAIN cases))
        /\ IsScenarioTable => ret = Some(667)

C2_Witness ==
    /\ call.op = "close_reason_ratio"
    /\ call.region = Null
    /\ IsScenarioTable
    /\ Len(cases) = 10
    /\ ret = Some(667)

\* r is None exactly when the denominator is 0, otherwise a number from 0
\* to 1, and 0 when the denominator is positive and the numerator 0
RatioOrUndefined(r, num, denom) ==
    /\ r = None <=> denom = 0
    /\ r # None => \E x \in 0..1000 : r = Some(x)
    /\ (denom > 0 /\ num = 0) => r = Some(0)

\* C3: every ratio of the rule engine (close_reason_ratio without a region,
\* for all regions and for one region, get_valid_cases_and_ratio,
\* osp_kcs_engagement) is None exactly when its denominator count is 0 and
\* otherwise lies between 0 and 1; a numerator of 0 over a positive
\* denominator gives 0.
C3_UndefinedIffNoDenominator ==
    /\ call.op = "close_reason_ratio" =>
          IF call.region = Null
            THEN RatioOrUndefined(ret, ValidIn(DOMAIN cases), CloseReasonIn(DOMAIN cases))
          ELSE IF StrCasefold(call.region) = <<"a", "l", "l">>
            THEN \A k \in DOMAIN ret : RatioOrUndefined(ret[k], ValidIn(RegionRows(k)), CloseReasonIn(RegionRows(k)))
          ELSE LET rows == RegionRows(StrUpper(call.region))
               IN  RatioOrUndefined(ret, ValidIn(rows), CloseReasonIn(rows))
    /\ call.op = "get_valid_cases_and_ratio" =>
          LET rows == IF call.region = Null \/ StrCasefold(call.region) = <<"a", "l", "l">>
                        THEN DOMAIN cases ELSE RegionRows(StrUpper(call.region))
          IN  RatioOrUndefined(ret.ratio, Cardinality({i \in rows : Criteria1to5(cases[i])}), CloseReasonIn(rows))
    /\ call.op = "osp_kcs_engagement" =>
          LET rows == DOMAIN ret.filtered_df
          IN  RatioOrUndefined(ret.close_reason_ratio,
                               Cardinality({i \in rows : HasCloseReason(cases[i])
                                               /\ StrCasefold(cases[i].close_reason) \in {StrCasefold(x) : x \in CLOSE_REASONS}}),
                               CloseReasonIn(rows))

C3_Witness ==
    /\ call.op = "close_reason_ratio"
    /\ call.region = <<"A", "D", "M", "I", "N">>
    /\ CloseReasonIn(RegionRows(<<"A", "D", "M", "I", "N">>)) > 0
    /\ CloseReasonIn(DOMAIN cases \ RegionRows(<<"A", "D", "M", "I", "N">>)) = 0
    /\ Len(cases) > 1
    /\ ret = Some(0)

\* two region values that differ in letter case or surrounding whitespace only
SameRegion(a, b) == a # Null /\ b # Null /\ StrCasefold(StrStrip(a)) = StrCasefold(StrStrip(b))

\* the cases open_cases_week_over_week_by_region counts
CountedOpenCase(c, end_date) ==
    /\ c.closed_date # NaT
    /\ c.region # Null
    /\ TrimmedUpper(c.region) # <<"A", "D", "M", "I", "N", " ", "L", "A", "N", "D", " ", "(", "T", "E", "S", "T", ")">>
    /\ TrimmedUpper(c.region) # <<>>
    /\ c.owner_role \notin { <<"Q", "u", "e", "u", "e", " ", EnDash, " ", "S", "u", "p", "p", "o", "r", "t", " ", "M", "a", "i", "l", "b", "o", "x">>, <<"Q", "u", "e", "u", "e", " ", EnDash, " ", "S", "a", "l", "e", "s", " ", "O", "p", "s">>, <<"U", "s", "e", "r", "s", " ", "A", "c", "c", "e", "s", "s">>, <<"Q", "u", "e", "u", "e", " ", EnDash, " ", "R", "e", "n", "e", "w", "a", "l", " ", "O", "p", "s">> }
    /\ c.case_record_type # <<"L", "i", "c", "e", "n", "s", "e">>
    /\ end_date # NaT => TsLe(c.closed_date, end_date)

\* day d of a month lies in the bucket that starts on day b
DayInBucket(d, b) ==
    \/ b = 1 /\ 1 <= d /\ d <= 7
    \/ b = 8 /\ 8 <= d /\ d <= 14
    \/ b = 15 /\ 15 <= d /\ d <= 21
    \/ b = 22 /\ 22 <= d

\* week is the start of the bucket of the instant closed
BucketOf(closed, week) ==
    /\ week.y = closed.y
    /\ week.m = closed.m
    /\ week.t = 0
    /\ DayInBucket(closed.d, week.d)

\* C4: every aggregation by region keys its output by the trimmed,
\* upper-cased region: cases whose regions differ in letter case or
\* surrounding whitespace only are aggregated under one key, and no output
\* has two keys for one region.
C4_RegionKeysNormalized ==
    /\ (call.op = "close_reason_ratio" /\ call.region # Null /\ StrCasefold(call.region) = <<"a", "l", "l">>) =>
          /\ \A i \in DOMAIN cases : cases[i].region # Null => TrimmedUpper(cases[i].region) \in DOMAIN ret
          /\ \A k \in DOMAIN ret \ {Null} :
                /\ k = TrimmedUpper(k)
                /\ \A k2 \in DOMAIN ret : SameRegion(k, k2) => k = k2
                /\ IsRatioOf(ret[k], ValidIn({i \in DOMAIN cases : SameRegion(cases[i].region, k)}),
                                     CloseReasonIn({i \in DOMAIN cases : SameRegion(cases[i].region, k)}))
    /\ call.op = "close_reason_ratio_last_n_months_by_region" =>
          LET window == {i \in DOMAIN cases : cases[i].region # Null
                            /\ cases[i].created_date.y * 12 + cases[i].created_date.m
                                   >= call.today.y * 12 + call.today.m - (call.n - 1)}
              MonthOf(i) == <<cases[i].created_date.y, cases[i].created_date.m>>
          IN  /\ \A i \in window : \E r \in ret : r.month = MonthOf(i) /\ r.region = TrimmedUpper(cases[i].region)
              /\ \A r \in ret :
                    LET group == {i \in window : MonthOf(i) = r.month /\ SameRegion(cases[i].region, r.region)}
                    IN  /\ r.region = TrimmedUpper(r.region)
                        /\ \A r2 \in ret : (r2.month = r.month /\ SameRegion(r.region, r2.region)) => r = r2
                        /\ group # {}
                        /\ IsRatioOf(r.ratio, ValidIn(group), CloseReasonIn(group))
    /\ call.op = "get_all_regions_valid_cases_and_ratios" =>
          /\ \A i \in DOMAIN cases :
                (cases[i].region # Null /\ TrimmedUpper(cases[i].region) \notin { <<"N", "O", "N", "E">>, <<"A", "D", "M", "I", "N", " ", "L", "A", "N", "D", " ", "(", "T", "E", "S", "T", ")">> })
                    => \E k \in DOMAIN ret : ret[k].region = TrimmedUpper(cases[i].region)
          /\ \A k \in DOMAIN ret :
                /\ ret[k].region = TrimmedUpper(ret[k].region)
                /\ \A k2 \in DOMAIN ret : SameRegion(ret[k].region, ret[k2].region) => k = k2
                /\ ret[k].valid_cases_count >=
                       Cardinality({i \in DOMAIN cases : SameRegion(cases[i].region, ret[k].region) /\ Criteria1to5(cases[i])})
    /\ call.op = "open_cases_week_over_week_by_region" =>
          LET counted == {i \in DOMAIN cases : CountedOpenCase(cases[i], call.end_date)}
          IN  /\ \A i \in counted : \E r \in ret :
                    BucketOf(cases[i].closed_date, r.week) /\ r.REGION = TrimmedUpper(cases[i].region)
              /\ \A r \in ret :
                    /\ r.REGION = TrimmedUpper(r.REGION)
                    /\ \A r2 \in ret : (r2.week = r.week /\ SameRegion(r.REGION, r2.REGION)) => r = r2
                    /\ r.open_cases_count =
                           Cardinality({i \in counted : BucketOf(cases[i].closed_date, r.week)
                                                          /\ SameRegion(cases[i].region, r.REGION)})

C4_Witness ==
    /\ call.op = "close_reason_ratio"
    /\ call.region = <<"a", "l", "l">>
    /\ \E i, j \in DOMAIN cases :
          /\ cases[i].region = <<" ", "e", "m", "e", "a", " ">>
          /\ cases[j].region = <<"E", "M", "E", "A">>
          /\ KcsValid(cases[i])
          /\ HasCloseReason(cases[j])
          /\ ~KcsValid(cases[j])
    /\ DOMAIN ret = { <<"E", "M", "E", "A">> }
    /\ ret[<<"E", "M", "E", "A">>] = Some(500)

\* C5: get_all_regions_valid_cases_and_ratios emits no row for region NONE
\* (however the input spells it), for a missing region or for ADMIN LAND
\* (TEST), also when the input holds cases of such regions.
C5_NoExcludedRegionRow ==
    call.op = "get_all_regions_valid_cases_and_ratios" =>
        /\ \A k \in DOMAIN ret :
              /\ ret[k].region # Null
              /\ ret[k].region \notin { <<"N", "O", "N", "E">>, <<"A", "D", "M", "I", "N", " ", "L", "A", "N", "D", " ", "(", "T", "E", "S", "T", ")">> }
        /\ \A i \in DOMAIN cases :
              (cases[i].region # Null /\ StrCasefold(StrStrip(cases[i].region)) \in { <<"n", "o", "n", "e">>, <<"a", "d", "m", "i", "n", " ", "l", "a", "n", "d", " ", "(", "t", "e", "s", "t", ")">> })
                  => \A k \in DOMAIN ret : ~SameRegion(ret[k].region, cases[i].region)

C5_Witness ==
    /\ call.op = "get_all_regions_valid_cases_and_ratios"
    /\ \E i \in DOMAIN cases : cases[i].region = <<"N", "o", "n", "e">>
    /\ \E i \in DOMAIN cases : cases[i].region = Null
    /\ Len(ret) = 1
    /\ ret[1].region = <<"E", "M", "E", "A">>

\* C6: get_all_regions_valid_cases_and_ratios has exactly one row per
\* normalized region of the input outside the exclusion set; its
\* valid_cases_count is the number of that region's cases meeting criteria
\* 1-5, its ratio that count over the region's cases with a close_reason.
C6_OneRowPerRegion ==
    call.op = "get_all_regions_valid_cases_and_ratios" =>
        LET present == {TrimmedUpper(cases[i].region) : i \in {j \in DOMAIN cases : cases[j].region # Null}}
                           \ { <<"N", "O", "N", "E">>, <<"A", "D", "M", "I", "N", " ", "L", "A", "N", "D", " ", "(", "T", "E", "S", "T", ")">> }
        IN  /\ {ret[k].region : k \in DOMAIN ret} = present
            /\ Len(ret) = Cardinality(present)
            /\ \A k \in DOMAIN ret :
                  LET valid == {i \in RegionRows(ret[k].region) : Criteria1to5(cases[i])}
                  IN  /\ ret[k].valid_cases_count = Cardinality(valid)
                      /\ IsRatioOf(ret[k].close_reason_ratio, Cardinality(valid), CloseReasonIn(RegionRows(ret[k].region)))

C8_WeekBuckets ==
    call.op = "open_cases_week_over_week_by_region" =>
        LET counted == {i \in DOMAIN cases : CountedOpenCase(cases[i], call.end_date)}
        IN  /\ \A r \in ret : r.week.d \in {1, 8, 15, 22} /\ r.week.t = 0
            /\ \A i \in counted : \E r \in ret :
                  /\ r.REGION = TrimmedUpper(cases[i].region)
                  /\ r.week.y = cases[i].closed_date.y
                  /\ r.week.m = cases[i].closed_date.m
                  /\ DayInBucket(cases[i].closed_date.d, r.week.d)
                  /\ r.week.d <= cases[i].closed_date.d
            /\ \A r \in ret :
                  r.open_cases_count =
                      Cardinality({i \in counted : /\ TrimmedUpper(cases[i].region) = r.REGION
                                                   /\ cases[i].closed_date.y = r.week.y
                                                   /\ cases[i].closed_date.m = r.week.m
                                                   /\ DayInBucket(cases[i].closed_date.d, r.week.d)})

C8_Witness ==
    /\ call.op = "open_cases_week_over_week_by_region"
    /\ \E i \in DOMAIN cases : cases[i].closed_date = Ts(2024, 1, 21, 2) /\ cases[i].region = <<"E", "M", "E", "A">>
    /\ \E i \in DOMAIN cases : cases[i].closed_date = Ts(2024, 1, 22, 0) /\ cases[i].region = <<"E", "M", "E", "A">>
    /\ \E i \in DOMAIN cases : cases[i].closed_date = Ts(2024, 1, 8, 0)
    /\ ret = { [week |-> Ts(2024, 1, 8, 0), REGION |-> <<"E", "M", "E", "A">>, open_cases_count |-> 1],
               [week |-> Ts(2024, 1, 15, 0), REGION |-> <<"E", "M", "E", "A">>, open_cases_count |-> 1],
               [week |-> Ts(2024, 1, 22, 0), REGION |-> <<"E", "M", "E", "A">>, open_cases_count |-> 1] }

RECURSIVE SumCounts(_)
SumCounts(records) ==
    IF records = {} THEN 0
    ELSE LET r == CHOOSE x \in records : TRUE
         IN  r.open_cases_count + SumCounts(records \ {r})

\* the cases C9 names: closed, with a region other than ADMIN LAND (TEST),
\* an owner_role outside the four queue roles, a record type other than
\* License, and closed by end_date when one is given
NamedOpenCase(c, end_date) ==
    /\ c.closed_date # NaT
    /\ c.region # Null
    /\ TrimmedUpper(c.region) # <<"A", "D", "M", "I", "N", " ", "L", "A", "N", "D", " ", "(", "T", "E", "S", "T", ")">>
    /\ c.owner_role \notin { <<"Q", "u", "e", "u", "e", " ", EnDash, " ", "S", "u", "p", "p", "o", "r", "t", " ", "M", "a", "i", "l", "b", "o", "x">>, <<"Q", "u", "e", "u", "e", " ", EnDash, " ", "S", "a", "l", "e", "s", " ", "O", "p", "s">>, <<"U", "s", "e", "r", "s", " ", "A", "c", "c", "e", "s", "s">>, <<"Q", "u", "e", "u", "e", " ", EnDash, " ", "R", "e", "n", "e", "w", "a", "l", " ", "O", "p", "s">> }
    /\ c.case_record_type # <<"L", "i", "c", "e", "n", "s", "e">>
    /\ end_date # NaT => TsLe(c.closed_date, end_date)

\* the records count exactly the cases in the set, each in one group
CountsExactly(records, counted) ==
    /\ \A i \in counted : \E r \in records :
          BucketOf(cases[i].closed_date, r.week) /\ r.REGION = TrimmedUpper(cases[i].region)
    /\ \A r \in records :
          /\ r.open_cases_count > 0
          /\ r.open_cases_count =
                Cardinality({i \in counted : BucketOf(cases[i].closed_date, r.week) /\ TrimmedUpper(cases[i].region) = r.REGION})
    /\ SumCounts(records) = Cardinality(counted)

DayNumber(ts) == ts.y * 10000 + ts.m * 100 + ts.d

\* the rows count_published_articles counts the article_id of
PublishedInWindow(a, start, end) ==
    /\ a.article_type \in { <<"F", "A", "Q">>, <<"H", "o", "w", " ", "T", "o">>, <<"T", "e", "c", "h", "n", "i", "c", "a", "l", " ", "I", "s", "s", "u", "e">> }
    /\ a.creator_name # <<"B", "I", " ", "I", "n", "t", "e", "g", "r", "a", "t", "i", "o", "n">>
    /\ a.version_is_latest
    /\ a.publish_status = <<"O", "n", "l", "i", "n", "e">>
    /\ a.published_at # NaT
    /\ DayNumber(start) <= DayNumber(a.published_at)
    /\ DayNumber(a.published_at) <= DayNumber(end)

\* C10: count_published_articles returns the number of distinct article_id
\* values, not of rows, among the latest Online versions of the three
\* types not created by BI Integration whose publishing day lies in
\* [start, end], both ends included and the time of day ignored.
C10_CountsDistinctArticleIds ==
    call.op = "count_published_articles" =>
        ret = Cardinality({articles[i].article_id :
                              i \in {j \in DOMAIN articles : PublishedInWindow(articles[j], call.start, call.end)}} \ {Null})

C10_Witness ==
    /\ call.op = "count_published_articles"
    /\ call.start.t > 0
    /\ \E i, j \in DOMAIN articles :
          /\ i # j
          /\ articles[i].article_id = articles[j].article_id
          /\ PublishedInWindow(articles[i], call.start, call.end)
          /\ PublishedInWindow(articles[j], call.start, call.end)
          /\ articles[j].published_at = Ts(2024, 2, 29, 2)
    /\ ret = 1

\* an article row that median_days_to_publish takes into account
Qualifies(a) ==
    /\ a.publish_status = <<"O", "n", "l", "i", "n", "e">>
    /\ a.visible_to_customers
    /\ a.version_is_latest
    /\ a.article_type \in { <<"F", "A", "Q">>, <<"T", "e", "c", "h", "n", "i", "c", "a", "l", " ", "I", "s", "s", "u", "e">>, <<"H", "o", "w", " ", "T", "o">> }
    /\ a.published_at # Null
    /\ a.published_at # <<>>
    /\ a.published_by_name # <<>>
    /\ a.internal = {FALSE}

QualifyingRows == {i \in DOMAIN articles : Qualifies(articles[i]) /\ articles[i].days_to_publish # {}}

DaysAt(i) == CHOOSE x \in articles[i].days_to_publish : TRUE

\* v is the k-th smallest of the days of the qualifying rows
IsKthDay(v, k) ==
    /\ Cardinality({i \in QualifyingRows : DaysAt(i) < v}) < k
    /\ k <= Cardinality({i \in QualifyingRows : DaysAt(i) <= v})

C12_WindowStartsNMonthsBack ==
    call.op = "last_n_months_window" =>
        /\ ret[2] = <<call.today.y, call.today.m, call.today.d>>
        /\ ret[1][3] = 1
        /\ ret[1][2] \in 1..12
        /\ 12 * ret[1][1] + ret[1][2] = 12 * call.today.y + call.today.m - (call.n - 1)
        /\ (call.today = Ts(2024, 3, 15, 0) /\ call.n = 6) => ret = << <<2023, 10, 1>>, <<2024, 3, 15>> >>

C12_Witness ==
    /\ call.op = "last_n_months_window"
    /\ call.n - 1 >= 12
    /\ call.today = Ts(2024, 3, 31, 0)
    /\ ret = << <<2022, 2, 1>>, <<2024, 3, 31>> >>

\* the close reasons that count as KCS engagement, in lower case
FoldedCloseReasons == { <<"s", "o", "l", "v", "e", "d", " ", "b", "y", " ", "e", "x", "i", "s", "t", "i", "n", "g", " ", "a", "r", "t", "i", "c", "l", "e">>, <<"s", "o", "l", "v", "e", "d", " ", "b", "y", " ", "e", "x", "i", "s", "t", "i", "n", "g", " ", "d", "o", "c">>, <<"a", "r", "t", "i", "c", "l", "e", " ", "u", "p", "d", "a", "t", "e", "d">>,
                        <<"a", "r", "t", "i", "c", "l", "e", " ", "f", "l", "a", "g", "g", "e", "d">>, <<"a", "r", "t", "i", "c", "l", "e", " ", "c", "r", "e", "a", "t", "e", "d">> }

\* a close_reason that equals a CLOSE_REASONS value up to letter case
MatchesUpToCase(cr) == cr # Null /\ StrCasefold(cr) \in FoldedCloseReasons

\* C13: osp_kcs_engagement compares close_reason with CLOSE_REASONS without
\* regard to letter case: when every case of the filtered set has a
\* close_reason equal to a CLOSE_REASONS value up to letter case, all of
\* them count in the numerator and the ratio is 1.
C13_CaseInsensitiveNumerator ==
    call.op = "osp_kcs_engagement" =>
        LET filtered == ret.filtered_df
        IN  (DOMAIN filtered # {} /\ \A i \in DOMAIN filtered : MatchesUpToCase(filtered[i].close_reason))
                => ret.close_reason_ratio = {1000}

\* the criteria of osp_kcs_engagement other than the month
OspCase(c) ==
    /\ c.case_record_type # Null /\ StrStrip(c.case_record_type) = <<"E", "x", "t", "e", "r", "n", "a", "l">>
    /\ c.owner_role # Null /\ (HasSubstringNoCase(c.owner_role, <<"I", "d", "a", "p", "t", "i", "v", "e">>) \/ HasSubstringNoCase(c.owner_role, <<"S", "u", "p", "p", "o", "r", "t">>))
    /\ c.status = Null \/ StrStrip(c.status) # <<"C", "l", "o", "s", "e", "d", " ", EnDash, " ", "P", "u", "r", "g", "e", "d">>
    /\ c.owner_company \in { <<"S", "o", "l", "u", "g", "e", "n", "i", "x">>, <<"H", "e", "l", "p", "w", "a", "r", "e">> }

\* the case was created on a day of the calendar month before today's
CreatedInPrecedingMonth(c, today) ==
    /\ c.created_date # NaT
    /\ 12 * c.created_date.y + c.created_date.m = 12 * today.y + today.m - 1

\* C14: the filtered set of osp_kcs_engagement is exactly the cases meeting
\* the type, role, status and company criteria that were created at any
\* instant of the calendar month before today's, from the start of its
\* first day to the end of its last day, whatever today's time of day;
\* count is its size and close_reason_denom is at most count.
C14_FullPrecedingMonth ==
    call.op = "osp_kcs_engagement" =>
        /\ DOMAIN ret.filtered_df = {i \in DOMAIN cases : OspCase(cases[i]) /\ CreatedInPrecedingMonth(cases[i], call.today)}
        /\ \A i \in DOMAIN ret.filtered_df : ret.filtered_df[i] = cases[i]
        /\ ret.count = Cardinality(DOMAIN ret.filtered_df)
        /\ ret.close_reason_denom <= ret.count

\* the cases created in the month of ordinal m (12 * year + month - 1)
CreatedInMonth(m) == {i \in DOMAIN cases : cases[i].created_date # NaT /\ 12 * cases[i].created_date.y + cases[i].created_date.m - 1 = m}

\* C15: close_reason_ratio_last_n_months(cases, n) has entries only for
\* months from current_month - (n - 1) to current_month, both included (a
\* case created before the window or in a month after the current one
\* gives no entry), and the value of a month is close_reason_ratio of the
\* cases created in that month.
C15_MonthsWithinWindow ==
    call.op = "close_reason_ratio_last_n_months" =>
        LET current_month == 12 * call.today.y + call.today.m - 1
        IN  \A k \in DOMAIN ret :
                /\ current_month - (call.n - 1) <= ret[k].month
                /\ ret[k].month <= current_month
                /\ IsRatioOf(ret[k].ratio, ValidIn(CreatedInMonth(ret[k].month)), CloseReasonIn(CreatedInMonth(ret[k].month)))

\* the source and canonical names written in the two mappings of clean.py
ArticleSourceNames == {"PUBLISHED_BY_NAME", "PUBLISHED_BY_REGION", "PUBLIC_KB_VIEWCOUNT", "ARTICLE_NUMBER",
                       "ARTICLE_FIRST_PUBLISHED_DATE", "DAYS_TO_PUBLISH", "ARTICLE_TYPE", "PUBLISH_STATUS", "INTERNAL",
                       "ARTILE_TITLE", "COMMUNITY_ARTICLE_URL", "ARTICLE_CASE_ATTACH_COUNT", "CREATOR_REGION",
                       "ARTICLE_CREATED_DATE", "CREATOR_NAME", "VISIBLE_IN_CUSTOMER_PORTAL", "VERSION_IS_LATEST"}

ArticleCanonicalNames == {"publisher", "region", "views_by_customers", "article_id", "published_at", "days_to_publish",
                          "article_type", "publish_status", "internal", "title", "community_article_url",
                          "article_attach_count", "creator_region", "created_at", "creator_name",
                          "visible_to_customers", "version_is_latest", "published_by_name"}

CaseSourceNames == {"CASE_NUMBER", "CREATED_DATE", "CLOSED_DATE", "REGION", "PRODUCT", "OWNER_NAME", "CREATED_BY_REGION",
                    "AGE", "CUSTOMER_ACCOUNT_REGION", "ATTACHED_ARTICLE_COUNT", "CLOSE_REASON", "STATUS", "RECORD_TYPE",
                    "OWNER_ROLE", "OWNER_COMPANY"}

CaseCanonicalNames == {"case_id", "created_date", "closed_date", "region", "product", "owner_name", "created_by_region",
                       "age", "customer_account_region", "attached_article_count", "close_reason", "status",
                       "case_record_type", "owner_role", "owner_company"}

\* the result of a Normalizer call on table: a table with the same rows
\* and exactly the canonical columns, or the lookup error when a mapped
\* source column is absent
CleanedOrKeyError(table, schema, sources, canonical) ==
    IF sources \subseteq ColumnsOf(table, schema)
        THEN /\ ret.raised = "none"
             /\ DOMAIN ret.value = DOMAIN table
             /\ \A i \in DOMAIN ret.value : DOMAIN ret.value[i] = canonical
        ELSE ret.raised = "KeyError"

\* C16: clean_cases and clean_articles return a table with the same rows
\* whose columns are exactly the canonical names of their mapping, the
\* other source columns dropped, or fail with the lookup error when a
\* mapped source column is absent; they never return a table that lacks a
\* canonical field.
C16_ExactlyCanonicalOrKeyError ==
    /\ call.op = "clean_articles" => CleanedOrKeyError(articles, ArticleSchema, ArticleSourceNames, ArticleCanonicalNames)
    /\ call.op = "clean_cases" => CleanedOrKeyError(cases, CaseSchema, CaseSourceNames, CaseCanonicalNames)

\* a fetch call of which every step has been taken
FetchEnded == call.op \in {"fetch_ka_window", "fetch_cases_window"} /\ call.pc = "done"

\* C17: every connection and cursor that fetch_ka_window or
\* fetch_cases_window acquires is released when the call returns or raises,
\* whichever step fails: no connection or cursor is open when a call has
\* ended or when none is running; a failure of the data source is raised
\* to the caller, and a result is returned only when no step failed.
C17_ReleasedOnEveryExit ==
    /\ (call.op = "none" \/ FetchEnded) => snowflake = [connections |-> 0, cursors |-> 0]
    /\ FetchEnded =>
          IF call.failed_at = "none" THEN ret.raised = "none"
          ELSE ret.raised \in {"OperationalError", "ProgrammingError"}
    /\ snowflake.connections <= 1
    /\ snowflake.cursors <= snowflake.connections

C17_Witness ==
    /\ FetchEnded
    /\ call.failed_at = "execute"
    /\ call.op = "fetch_cases_window"
    /\ ret.raised = "ProgrammingError"
    /\ Len(articles) = MaxRows
    /\ snowflake = [connections |-> 0, cursors |-> 0]

\* the chart can be saved as an image by one of the two methods
Supported(fig) == fig.attrs \cap {"write_image", "savefig"} # {}

\* C18: when a chart at any position of the list supports neither
\* write_image nor savefig, export_report_pdf fails with ValueError and
\* nothing is written to output_path; a document is written only when
\* every chart has been rendered, and it has the overview header page
\* followed by one page per triple, in the order of the list.
C18_AllChartsOrNoDocument ==
    call.op = "export_report_pdf" =>
        IF \E k \in DOMAIN call.figures : ~Supported(call.figures[k].fig)
            THEN /\ ret.raised = "ValueError"
                 /\ output_file = call.file_before
            ELSE /\ ret.raised = "none"
                 /\ output_file.written
                 /\ Len(output_file.pages) = 1 + Len(call.figures)
                 /\ output_file.pages[1].title = "KCS Report"
                 /\ \A k \in DOMAIN call.figures :
                       /\ output_file.pages[k + 1].title = call.figures[k].title
                       /\ output_file.pages[k + 1].figure = call.figures[k].fig
                       /\ output_file.pages[k + 1].image.chart = k - 1

C18_Witness ==
    /\ call.op = "export_report_pdf"
    /\ Len(call.figures) = 2
    /\ Supported(call.figures[1].fig)
    /\ ~Supported(call.figures[2].fig)
    /\ call.file_before = [pages |-> <<>>, written |-> FALSE]
    /\ ret.raised = "ValueError"
    /\ output_file = call.file_before

\* the operations of the Rule Engine and of the Normalizer
TableOperations == {"close_reason_ratio", "close_reason_ratio_last_n_months", "close_reason_ratio_last_n_months_by_region",
                    "get_valid_cases_and_ratio", "get_all_regions_valid_cases_and_ratios", "count_created_articles",
                    "count_published_articles", "median_days_to_publish", "open_cases_week_over_week_by_region",
                    "osp_kcs_engagement", "clean_articles", "clean_cases"}

\* C19: every Rule Engine operation and both Normalizer functions leave
\* the table passed in as it was, rows, columns and values, also when the
\* call fails and when the function derives a month or week_start column;
\* so each call of a sequence of calls on one table is given the table the
\* first one was given.
C19_TablesUnchanged ==
    [][(call.op = "none" /\ call'.op \in TableOperations) => (cases' = cases /\ articles' = articles)]_vars

C19_Witness ==
    /\ call.op = "close_reason_ratio_last_n_months"
    /\ Len(ret) >= 1
    /\ Len(cases) = MaxRows
    /\ \A i \in DOMAIN cases : DOMAIN cases[i] = DOMAIN BaseCase

\* the cases of region ADMIN or INTERNAL
AdminInternalRows == {i \in DOMAIN cases : InAdminInternal(cases[i])}

\* the cases of the other regions that meet criteria 1-5
ValidElsewhere == Cardinality({i \in DOMAIN cases \ AdminInternalRows : Criteria1to5(cases[i])})

\* the ratio of a region none of whose cases counts in the numerator
ZeroOrUndefined(r, rows) == r = IF CloseReasonIn(rows) > 0 THEN {0} ELSE {}

\* C20: in close_reason_ratio the cases of region ADMIN or INTERNAL count
\* in the denominator and never in the numerator: the ratio of region
\* ADMIN, and the ADMIN and INTERNAL entries of the 'ALL' mapping, are 0
\* when the region has a case with a close_reason (None otherwise), and
\* the global ratio has the cases of the other regions alone in its
\* numerator, so that it is never above the ratio num0 / denom0 of the
\* table without the ADMIN/INTERNAL cases (in thousandths, rounded).
C20_AdminInternalDenominatorOnly ==
    call.op = "close_reason_ratio" =>
        IF call.region = Null
            THEN /\ IsRatioOf(ret, ValidElsewhere, CloseReasonIn(DOMAIN cases))
                 /\ LET num0 == ValidElsewhere
                        denom0 == CloseReasonIn(DOMAIN cases \ AdminInternalRows)
                    IN  denom0 > 0 => \A x \in ret : 2 * x * denom0 <= 2000 * num0 + denom0
        ELSE IF StrCasefold(call.region) = <<"a", "l", "l">>
            THEN \A k \in DOMAIN ret \cap { <<"A", "D", "M", "I", "N">>, <<"I", "N", "T", "E", "R", "N", "A", "L">> } : ZeroOrUndefined(ret[k], RegionRows(k))
        ELSE StrUpper(call.region) \in { <<"A", "D", "M", "I", "N">>, <<"I", "N", "T", "E", "R", "N", "A", "L">> } => ZeroOrUndefined(ret, RegionRows(StrUpper(call.region)))

C20_Witness ==
    /\ call.op = "close_reason_ratio"
    /\ StrCasefold(call.region) = <<"a", "l", "l">>
    /\ { <<"A", "D", "M", "I", "N">>, <<"I", "N", "T", "E", "R", "N", "A", "L">>, <<"E", "M", "E", "A">> } \subseteq DOMAIN ret
    /\ ret[ <<"A", "D", "M", "I", "N">> ] = {0}
    /\ ret[ <<"I", "N", "T", "E", "R", "N", "A", "L">> ] = {0}
    /\ ret[ <<"E", "M", "E", "A">> ] = {1000}

====
